---- MODULE Spec2Model ----
(***************************************************************************)
(* The OpenClaw TouchPortal bridge, in its three variants:                 *)
(*   "http"  src/plugin-remote.js lines 1-273   (TCP control channel,      *)
(*           HTTP /tools/invoke agent transport)                           *)
(*   "ws"    src/plugin-remote.js lines 275-532 (WebSocket control         *)
(*           channel, WebSocket JSON-RPC agent transport)                  *)
(*   "local" src/plugin.js                      (WebSocket control         *)
(*           channel, the agent's command-line tool as child processes)    *)
(* One behaviour runs one variant, chosen in Init.  Every handler of the   *)
(* program is an operator from the plugin object's state (a record of its  *)
(* fields) to its state after the handler; an action applies one handler   *)
(* to one event.  The variables ev, tpSent and agentSent describe the      *)
(* step just taken: the event handled, the messages it wrote to the        *)
(* control channel and the requests it issued to the agent.                *)
(*                                                                         *)
(* Strings the program inspects (URLs, tokens, inbound bytes) are          *)
(* sequences of symbols; strings it only passes on are TLA+ strings.       *)
(* A pending timer is a record of its callback and its delay, in a bag; it  *)
(* fires at some later step.                                               *)
(***************************************************************************)
EXTENDS Integers, Sequences, FiniteSets, Bags, TLC

VARIABLES
    variant,        \* which program runs
    running,        \* this.running
    exited,         \* process.exit was called
    loop,           \* run()'s keep-alive loop: "sleeping" | "done"
    tp,             \* control-channel socket: "connecting" | "open" | "closed"
    statusInterval, \* this.statusInterval is non-null
    timers,         \* bag of pending setTimeout / setInterval callbacks
    gatewayUrl,     \* this.gatewayUrl
    authToken,      \* this.authToken
    openclawPath,   \* this.openclawPath
    workspaceDir,   \* this.workspaceDir
    ocSocks,        \* the gateway WebSockets that exist, by slot
    ocWs,           \* this.ocWs: a slot of ocSocks, 0 for null
    reqId,          \* this.reqId
    reqs,           \* bag of HTTP requests / child processes in flight
    buf,            \* the TCP data handler's line buffer
    ev,             \* the event handled by the last step
    tpSent,         \* control-channel messages written by the last step
    agentSent,      \* agent requests issued by the last step
    connects,       \* gateway connection attempts started by the last step
    rpcRet,         \* values returned by sendGatewayRpc in the last step
    settled,        \* promises of agent calls settled by the last step
    maxId,          \* history: the largest id sendGatewayRpc has returned
    lastAction,     \* history: of the actions awaiting a reply, the one
                    \* whose request was issued last
    nFrames         \* history: control-channel deliveries so far

vars == <<variant, running, exited, loop, tp, statusInterval, timers, gatewayUrl,
          authToken, openclawPath, workspaceDir, ocSocks, ocWs, reqId, reqs, buf,
          ev, tpSent, agentSent, connects, rpcRet, settled, maxId, lastAction,
          nFrames>>

(***************************************************************************)
(* Bounds of the model.                                                    *)
(***************************************************************************)
MaxFrames == 1
MaxSockets == 2
MaxTimers == 2
MaxReqs == 2
MaxProcs == 1
MaxReqId == 2

(***************************************************************************)
(* Program constants (milliseconds).                                       *)
(***************************************************************************)
ReconnectDelay == 5000
StatusPeriod == 30000
WsRefreshDelay == 1000
LocalRefreshDelay == 1000
HttpRefreshDelay == 2000
HttpInitialDelay == 2000
HttpSettingsDelay == 500
HttpTimeout == 10000
SpawnTimeout == 10000

pluginId == "openclaw.deckard"


(***************************************************************************)
(* JavaScript values that reach the control channel: a type tag and the    *)
(* text String(value) yields.                                              *)
(***************************************************************************)
JsStr(x) == [type |-> "string", v |-> x]
Undefined == [type |-> "undefined", v |-> "undefined"]
ObjectFunction == [type |-> "function", v |-> "function Object() { [native code] }"]
Truthy(x) == x.type \notin {"undefined", "null"} /\ ~(x.type = "string" /\ x.v = "")
String(x) == JsStr(x.v)

(***************************************************************************)
(* The model table and the action identifiers.                             *)
(***************************************************************************)
ModelKeys ==
    {"openclaw_switch_model_deepseek", "openclaw_switch_model_ollama",
     "openclaw_switch_model_claude", "openclaw_switch_model_gpt4o",
     "openclaw_switch_model_gemini"}

Http_modelMap ==
    [k \in ModelKeys |->
        CASE k = "openclaw_switch_model_deepseek" -> "openrouter/deepseek/deepseek-v3.2"
          [] k = "openclaw_switch_model_ollama" -> "ollama/llama3.2:3b"
          [] k = "openclaw_switch_model_claude" -> "anthropic/claude-sonnet-4-6"
          [] k = "openclaw_switch_model_gpt4o" -> "openrouter/openai/gpt-4o"
          [] k = "openclaw_switch_model_gemini" -> "openrouter/google/gemini-2.5-flash-lite"]

Ws_modelMap ==
    [k \in ModelKeys |->
        CASE k = "openclaw_switch_model_deepseek" -> "openrouter/deepseek/deepseek-v3.2"
          [] k = "openclaw_switch_model_ollama" -> "ollama/llama3.2:3b"
          [] k = "openclaw_switch_model_claude" -> "openrouter/anthropic/claude-3.5-sonnet"
          [] k = "openclaw_switch_model_gpt4o" -> "openrouter/openai/gpt-4o"
          [] k = "openclaw_switch_model_gemini" -> "openrouter/google/gemini-2.5-flash-lite"]

Local_modelMap ==
    [k \in ModelKeys |->
        CASE k = "openclaw_switch_model_deepseek" -> "openrouter/deepseek/deepseek-v3.2"
          [] k = "openclaw_switch_model_ollama" -> "ollama/llama3.2:3b"
          [] k = "openclaw_switch_model_claude" -> "openrouter/anthropic/claude-3.5-sonnet"
          [] k = "openclaw_switch_model_gpt4o" -> "openrouter/openai/gpt-4o"
          [] k = "openclaw_switch_model_gemini" -> "openrouter/google/gemini-2.5-flash-lite"]

\* Names every JavaScript object inherits from Object.prototype.
InheritedProps == {"constructor"}

\* this.modelMap[actionId]: an own key's string, an inherited property's
\* value, or undefined.
modelLookup(map, actionId) ==
    IF actionId \in DOMAIN map THEN JsStr(map[actionId])
    ELSE IF actionId \in InheritedProps THEN ObjectFunction
    ELSE Undefined

CommandIds ==
    {"openclaw_reset_gateway", "openclaw_trigger_heartbeat",
     "openclaw_kill_subagents", "openclaw_toggle_thinking"}

KnownIds == ModelKeys \cup CommandIds

ActionIds == KnownIds \cup {"openclaw_unknown"} \cup InheritedProps

(***************************************************************************)
(* The plugin object's fields as one record, with the step's outputs       *)
(* empty, and the assignment of a handler's result to the variables.       *)
(***************************************************************************)
S ==
    [running |-> running, exited |-> exited, loop |-> loop, tp |-> tp,
     statusInterval |-> statusInterval, timers |-> timers,
     gatewayUrl |-> gatewayUrl, authToken |-> authToken,
     openclawPath |-> openclawPath, workspaceDir |-> workspaceDir,
     ocSocks |-> ocSocks, ocWs |-> ocWs, reqId |-> reqId, reqs |-> reqs,
     buf |-> buf, tpSent |-> <<>>, agentSent |-> <<>>, connects |-> 0,
     rpcRet |-> <<>>, settled |-> <<>>, maxId |-> maxId,
     lastAction |-> lastAction, overflow |-> FALSE]

\* A closed socket the plugin no longer refers to is garbage.
FreeSock == [state |-> "free", url |-> <<>>]
Collect(socks, cur) ==
    [i \in DOMAIN socks |->
        IF socks[i].state = "closed" /\ i # cur THEN FreeSock ELSE socks[i]]

Bounded(s) ==
    /\ ~s.overflow
    /\ BagCardinality(s.timers) <= MaxTimers
    /\ BagCardinality(s.reqs) <= (IF variant = "local" THEN MaxProcs ELSE MaxReqs)
    /\ s.reqId <= MaxReqId + 1

Set(s, e) ==
    /\ Bounded(s)
    /\ running' = s.running
    /\ exited' = s.exited
    /\ loop' = s.loop
    /\ tp' = s.tp
    /\ statusInterval' = s.statusInterval
    /\ timers' = s.timers
    /\ gatewayUrl' = s.gatewayUrl
    /\ authToken' = s.authToken
    /\ openclawPath' = s.openclawPath
    /\ workspaceDir' = s.workspaceDir
    /\ ocSocks' = Collect(s.ocSocks, s.ocWs)
    /\ ocWs' = s.ocWs
    /\ reqId' = s.reqId
    /\ reqs' = s.reqs
    /\ buf' = s.buf
    /\ tpSent' = s.tpSent
    /\ agentSent' = s.agentSent
    /\ connects' = s.connects
    /\ rpcRet' = s.rpcRet
    /\ settled' = s.settled
    /\ maxId' = s.maxId
    /\ lastAction' = IF \E r \in BagToSet(s.reqs) : r.k.kind = "action"
                      THEN s.lastAction ELSE [kind |-> "none", actionId |-> ""]
    /\ ev' = e
    /\ variant' = variant

(***************************************************************************)
(* Timers.  setTimeout and setInterval add a record to the bag.            *)
(***************************************************************************)
Timer(cb, delay) == [cb |-> cb, delay |-> delay]

\* setTimeout as it would be if the callback were never scheduled.
setTimeout_dropped(s, cb, delay) == s

setTimeout(s, cb, delay) ==
    [s EXCEPT !.timers = @ (+) SetToBag({Timer(cb, delay)})]

setInterval(s, cb, delay) ==
    [s EXCEPT !.timers = @ (+) SetToBag({Timer(cb, delay)}), !.statusInterval = TRUE]

\* if (this.statusInterval) clearInterval(this.statusInterval)
clearInterval(s) ==
    IF s.statusInterval
    THEN [s EXCEPT !.timers =
            [x \in {y \in DOMAIN s.timers : y.cb # "interval"} |-> s.timers[x]]]
    ELSE s

(***************************************************************************)
(* Inbound text.  A symbol is a character or the body of a JSON value; a   *)
(* JSON text is a body between braces.  On the TCP control channel the     *)
(* text arrives as bytes: a body one of whose strings holds a two-byte     *)
(* character is two symbols, the bytes up to the middle of that character  *)
(* and the bytes from there on.                                            *)
(***************************************************************************)
NoMsg == [type |-> "none"]
Sym(c) == [c |-> c, m |-> NoMsg]
Body(m) == [c |-> "body", m |-> m]
NL == Sym("\n")
SP == Sym(" ")
Json(m) == <<Sym("{"), Body(m), Sym("}")>>

BytesTo(m) == [c |-> "bytes<", m |-> m]
BytesFrom(m) == [c |-> "bytes>", m |-> m]

\* chunk.toString(): each chunk is decoded as UTF-8 on its own, and a
\* character whose bytes are not all in the chunk becomes U+FFFD.
toString(chunk) ==
    [i \in DOMAIN chunk |->
        IF chunk[i].c = "bytes<" THEN
            [c |-> IF i < Len(chunk) /\ chunk[i + 1] = BytesFrom(chunk[i].m)
                   THEN "text<" ELSE "text<?",
             m |-> chunk[i].m]
        ELSE IF chunk[i].c = "bytes>" THEN
            [c |-> IF i > 1 /\ chunk[i - 1] = BytesTo(chunk[i].m)
                   THEN "text>" ELSE "?text>",
             m |-> chunk[i].m]
        ELSE chunk[i]]

\* A string with its two-byte character replaced by two U+FFFD.
RECURSIVE Mangle(_)
Mangle(v) ==
    IF v = <<>> THEN <<>>
    ELSE (IF Head(v) = "U+00E9" THEN <<"U+FFFD", "U+FFFD">> ELSE <<Head(v)>>)
            \o Mangle(Tail(v))

\* The value JSON.parse returns for a body decoded in two pieces.
Garbled(m) ==
    IF m.type = "settings" /\ m.values.form = "object"
    THEN [m EXCEPT !.values.obj = [k \in DOMAIN @ |-> Mangle(@[k])]]
    ELSE m

JSONparse(text) ==
    IF Len(text) = 3 /\ text[1] = Sym("{") /\ text[2].c = "body" /\ text[3] = Sym("}")
    THEN [ok |-> TRUE, msg |-> text[2].m]
    ELSE IF Len(text) = 4 /\ text[1] = Sym("{") /\ text[4] = Sym("}")
            /\ text[2].c \in {"text<", "text<?"} /\ text[3].c \in {"text>", "?text>"}
            /\ text[2].m = text[3].m
    THEN [ok |-> TRUE,
          msg |-> IF text[2].c = "text<" /\ text[3].c = "text>"
                  THEN text[2].m ELSE Garbled(text[2].m)]
    ELSE [ok |-> FALSE, msg |-> NoMsg]

(***************************************************************************)
(* Settings values: absent, one flat object, or an array of objects.       *)
(* Objects are functions from setting names to strings (symbol sequences). *)
(***************************************************************************)
NoValues == [form |-> "undefined"]
FlatValues(obj) == [form |-> "object", obj |-> obj]
ArrayValues(items) == [form |-> "array", items |-> items]
EmptyObj == [k \in {} |-> <<>>]

\* obj[key]; the empty string stands for undefined (both are falsy).
Prop(obj, key) == IF key \in DOMAIN obj THEN obj[key] ELSE <<>>

\* msg.values || {} : an array is truthy and is kept; it has no named settings.
OrEmptyObject(values) == IF values.form = "object" THEN values.obj ELSE EmptyObj

(***************************************************************************)
(* Control-channel output (all variants).                                  *)
(***************************************************************************)
Toast(message) ==
    [type |-> "showNotification", id |-> pluginId,
     notification |-> [id |-> "toast", message |-> message]]

StateUpdate(states) == [type |-> "stateUpdate", id |-> pluginId, states |-> states]

State(stateId, value) == [id |-> stateId, value |-> value]

(***************************************************************************)
(* WebSocket variant: src/plugin-remote.js lines 275-532.                  *)
(***************************************************************************)
Ws_DefaultUrl == <<"ws:", "//192.168.1.191:18789", "/", "w", "s">>
DefaultToken == <<"5ded5065b332507fde2eef8ffd4ba0453bf1fc230c124dfe">>

\* if (this.tpWs && this.tpWs.readyState === WebSocket.OPEN) this.tpWs.send(...)
Ws_sendToTP(s, msg) ==
    IF s.tp = "open" THEN [s EXCEPT !.tpSent = Append(@, msg)] ELSE s

\* sendToast as it would be if it wrote nothing.
Ws_sendToast_dropped(s, message) == s

Ws_sendToast(s, message) == Ws_sendToTP(s, Toast(message))

\* the value is passed on as it is
Ws_updateState(s, stateId, value) ==
    Ws_sendToTP(s, StateUpdate(<<State(stateId, value)>>))

\* The parameters as they would be if a caller's token were kept.
WithToken_callerWins(params, token) == params @@ ("token" :> token)

\* { ...params, token: this.authToken }
WithToken(params, token) == ("token" :> token) @@ params

\* sendGatewayRpc as it would be if it took an id even when the socket is
\* not open.
Ws_sendGatewayRpc_consumesId(s, method, params) ==
    IF s.ocWs = 0 \/ s.ocSocks[s.ocWs].state # "open"
    THEN [s EXCEPT !.rpcRet = Append(@, 0), !.reqId = @ + 1]
    ELSE [s EXCEPT
            !.reqId = @ + 1,
            !.agentSent = Append(@, [jsonrpc |-> "2.0", id |-> s.reqId,
                                     method |-> method,
                                     params |-> WithToken(params, s.authToken),
                                     sock |-> s.ocWs]),
            !.rpcRet = Append(@, s.reqId),
            !.maxId = IF s.reqId > @ THEN s.reqId ELSE @]

Ws_sendGatewayRpc(s, method, params) ==
    IF s.ocWs = 0 \/ s.ocSocks[s.ocWs].state # "open"
    THEN [s EXCEPT !.rpcRet = Append(@, 0)]
    ELSE [s EXCEPT
            !.reqId = @ + 1,
            !.agentSent = Append(@, [jsonrpc |-> "2.0", id |-> s.reqId,
                                     method |-> method,
                                     params |-> WithToken(params, s.authToken),
                                     sock |-> s.ocWs]),
            !.rpcRet = Append(@, s.reqId),
            !.maxId = IF s.reqId > @ THEN s.reqId ELSE @]

NoParams == [k \in {} |-> <<>>]

\* new WebSocket(this.gatewayUrl), assigned to this.ocWs
Ws_connectToGateway(s) ==
    LET live == Collect(s.ocSocks, 0)
        free == {i \in DOMAIN live : live[i].state = "free"}
    IN IF free = {} THEN [s EXCEPT !.overflow = TRUE]
       ELSE LET i == CHOOSE x \in free : \A y \in free : x <= y IN
            [s EXCEPT !.ocSocks = [live EXCEPT ![i] =
                                     [state |-> "connecting", url |-> s.gatewayUrl]],
                      !.ocWs = i,
                      !.connects = @ + 1]

\* WebSocket.close(): the close event follows later
WebSocketClose(s, i) ==
    IF i # 0 /\ s.ocSocks[i].state \in {"connecting", "open"}
    THEN [s EXCEPT !.ocSocks[i].state = "closing"]
    ELSE s

Ws_ocOnOpen(s) ==
    Ws_updateState(Ws_sendToast(s, <<"Connected to OpenClaw">>),
                   "openclaw_agent_status", JsStr("online"))

\* A gateway message: result, result.status and result.status.model may
\* each be missing.
GwMsg(id, hasResult, hasStatus, model) ==
    [type |-> "gw", id |-> id, hasResult |-> hasResult, hasStatus |-> hasStatus,
     model |-> model]

\* The message handler as it would be if it matched the response's id
\* against the last request sent.
Ws_ocOnMessage_correlated(s, data) ==
    LET p == JSONparse(data) IN
    IF ~p.ok THEN s
    ELSE IF p.msg.type = "gw" /\ p.msg.hasResult /\ p.msg.hasStatus /\ Truthy(p.msg.model)
            /\ p.msg.id = s.reqId - 1
         THEN Ws_updateState(s, "openclaw_current_model", p.msg.model)
         ELSE s

Ws_ocOnMessage(s, data) ==
    LET p == JSONparse(data) IN
    IF ~p.ok THEN s
    ELSE IF p.msg.type = "gw" /\ p.msg.hasResult /\ p.msg.hasStatus /\ Truthy(p.msg.model)
         THEN Ws_updateState(s, "openclaw_current_model", p.msg.model)
         ELSE s

Ws_ocOnError(s) == Ws_updateState(s, "openclaw_agent_status", JsStr("error"))

\* The close handler as it would be if it reconnected without the delay.
Ws_ocOnClose_immediate(s) ==
    LET s1 == Ws_updateState(s, "openclaw_agent_status", JsStr("offline")) IN
    IF s1.running THEN Ws_connectToGateway(s1) ELSE s1

Ws_ocOnClose(s) ==
    LET s1 == Ws_updateState(s, "openclaw_agent_status", JsStr("offline")) IN
    IF s1.running THEN setTimeout(s1, "connectToGateway", ReconnectDelay) ELSE s1

Ws_fetchStatus(s) ==
    Ws_updateState(Ws_sendGatewayRpc(s, "status.get", NoParams),
                   "openclaw_uptime", JsStr("remote"))

Ws_handleAction(s, actionId) ==
    LET model == modelLookup(Ws_modelMap, actionId)
        s1 ==
          IF Truthy(model) THEN
            Ws_sendToast(
              Ws_sendGatewayRpc(s, "message.send",
                  [channel |-> <<"webchat">>, message |-> <<"/model ", model.v>>]),
              <<"Switching to ", model.v>>)
          ELSE IF actionId = "openclaw_reset_gateway" THEN
            Ws_sendToast(Ws_sendGatewayRpc(s, "gateway.restart", NoParams),
                         <<"Gateway restart initiated">>)
          ELSE IF actionId = "openclaw_trigger_heartbeat" THEN
            Ws_sendToast(
              Ws_sendGatewayRpc(s, "file.write",
                  [path |-> <<"/home/dontcallmejames/.openclaw/workspace/HEARTBEAT.md">>,
                   content |-> <<"# Manual heartbeat\n">>]),
              <<"Heartbeat triggered">>)
          ELSE IF actionId = "openclaw_kill_subagents" THEN
            Ws_sendToast(Ws_sendGatewayRpc(s, "subagents.kill", [target |-> <<"all">>]),
                         <<"Sub-agents terminated">>)
          ELSE IF actionId = "openclaw_toggle_thinking" THEN
            Ws_sendToast(
              Ws_sendGatewayRpc(s, "message.send",
                  [channel |-> <<"webchat">>, message |-> <<"/reasoning">>]),
              <<"Thinking mode toggled">>)
          ELSE s
    IN setTimeout(s1, "fetchStatus", WsRefreshDelay)

Ws_tpOnOpen(s) ==
    LET s1 == Ws_sendToTP(s, [type |-> "info", id |-> pluginId, version |-> "1.0.0"])
        s2 == Ws_connectToGateway(s1)
    IN setInterval(s2, "interval", StatusPeriod)

Ws_onSettings(s, values) ==
    LET settings == OrEmptyObject(values)
        url == Prop(settings, "gateway_url")
        tok == Prop(settings, "auth_token")
        s1 == IF url # <<>>
              THEN Ws_connectToGateway(
                       WebSocketClose([s EXCEPT !.gatewayUrl = url], s.ocWs))
              ELSE s
    IN IF tok # <<>> THEN [s1 EXCEPT !.authToken = tok] ELSE s1

\* The message handler as it would be if a parse failure ended the plugin.
Ws_tpOnMessage_crash(s, data) ==
    LET p == JSONparse(data) IN
    IF ~p.ok THEN [s EXCEPT !.running = FALSE]
    ELSE IF p.msg.type = "action" THEN Ws_handleAction(s, p.msg.actionId)
    ELSE IF p.msg.type = "settings" THEN Ws_onSettings(s, p.msg.values)
    ELSE IF p.msg.type = "closePlugin" THEN [s EXCEPT !.running = FALSE]
    ELSE s

Ws_tpOnMessage(s, data) ==
    LET p == JSONparse(data) IN
    IF ~p.ok THEN s
    ELSE IF p.msg.type = "action" THEN Ws_handleAction(s, p.msg.actionId)
    ELSE IF p.msg.type = "settings" THEN Ws_onSettings(s, p.msg.values)
    ELSE IF p.msg.type = "closePlugin" THEN [s EXCEPT !.running = FALSE]
    ELSE s

\* The close handler as it would be if it left the gateway socket open.
Ws_tpOnClose_keepsGateway(s) == clearInterval([s EXCEPT !.running = FALSE])

Ws_tpOnClose(s) ==
    WebSocketClose(clearInterval([s EXCEPT !.running = FALSE]), s.ocWs)

(***************************************************************************)
(* String operations on symbol sequences.                                  *)
(***************************************************************************)
EndsWith(s, suf) ==
    Len(s) >= Len(suf) /\ SubSeq(s, Len(s) - Len(suf) + 1, Len(s)) = suf

\* .replace(/\/ws$/, '')
StripWs(u) == IF EndsWith(u, <<"/", "w", "s">>) THEN SubSeq(u, 1, Len(u) - 3) ELSE u

\* .replace(/\/$/, '')
StripSlash(u) == IF EndsWith(u, <<"/">>) THEN SubSeq(u, 1, Len(u) - 1) ELSE u

\* .trim(), ws being the whitespace symbol
RECURSIVE trim(_, _)
trim(s, ws) ==
    IF s = <<>> THEN s
    ELSE IF Head(s) = ws THEN trim(Tail(s), ws)
    ELSE IF s[Len(s)] = ws THEN trim(SubSeq(s, 1, Len(s) - 1), ws)
    ELSE s

\* slice as it would be if it kept the whole string.
slice_whole(s, n) == s

\* .slice(0, n)
slice(s, n) == SubSeq(s, 1, IF Len(s) < n THEN Len(s) ELSE n)

\* .split('\n')
RECURSIVE split(_)
split(text) ==
    IF \A i \in DOMAIN text : text[i] # NL THEN <<text>>
    ELSE LET i == CHOOSE x \in DOMAIN text :
                    text[x] = NL /\ \A y \in 1..(x - 1) : text[y] # NL
         IN <<SubSeq(text, 1, i - 1)>> \o split(SubSeq(text, i + 1, Len(text)))

(***************************************************************************)
(* HTTP variant: src/plugin-remote.js lines 1-273.                         *)
(***************************************************************************)
\* if (this.tpSocket && !this.tpSocket.destroyed) this.tpSocket.write(...)
Http_sendToTP(s, msg) ==
    IF s.tp # "closed" THEN [s EXCEPT !.tpSent = Append(@, msg)] ELSE s

Http_sendToast(s, message) == Http_sendToTP(s, Toast(message))

Http_updateState(s, stateId, value) ==
    Http_sendToTP(s, StateUpdate(<<State(stateId, String(value))>>))

\* values.reduce((acc, item) => Object.assign(acc, item), {})
RECURSIVE reduceAssign(_, _)
reduceAssign(items, acc) ==
    IF items = <<>> THEN acc ELSE reduceAssign(Tail(items), Head(items) @@ acc)

\* parseSettings as it would be if it knew the flat form only.
parseSettings_flatOnly(values) == OrEmptyObject(values)

parseSettings(values) ==
    IF values.form = "undefined" THEN EmptyObj
    ELSE IF values.form = "array" THEN reduceAssign(values.items, EmptyObj)
    ELSE values.obj

\* What a settled agent call hands to the code awaiting it.
\* A body is the value JSON.parse returned, or the text it could not parse.
NoBody == [json |-> FALSE, value |-> NoMsg, text |-> <<>>]
Resolved(status, body) ==
    [ok |-> TRUE, status |-> status, body |-> body, message |-> <<>>]
Rejected(message) ==
    [ok |-> FALSE, status |-> 0, body |-> NoBody, message |-> message]

StatusText(status) == IF status = 200 THEN "200" ELSE "500"

TimeoutMessage == <<"T", "i", "m", "e", "o", "u", "t">>
InvalidUrlMessage == <<"I", "n", "v", "a", "l", "i", "d", " ", "U", "R", "L">>

\* fetchStatus after its await as it would be if any answer meant online.
Http_fetchStatusResume_anyAnswer(s, o) ==
    IF ~o.ok THEN Http_updateState(s, "openclaw_agent_status", JsStr("offline"))
    ELSE Http_updateState(s, "openclaw_agent_status", JsStr("online"))

\* fetchStatus after its await
Http_fetchStatusResume(s, o) ==
    IF ~o.ok THEN Http_updateState(s, "openclaw_agent_status", JsStr("offline"))
    ELSE IF o.status = 200
         THEN Http_updateState(s, "openclaw_agent_status", JsStr("online"))
         ELSE Http_updateState(s, "openclaw_agent_status", JsStr("error"))

\* handleAction after its await as it would be if the model state were set
\* whatever the response's status.
Http_handleActionResume_anyStatus(s, actionId, o) ==
    LET model == modelLookup(Http_modelMap, actionId)
        s1 ==
          IF ~o.ok THEN Http_sendToast(s, <<"Error: ">> \o slice(o.message, 50))
          ELSE IF Truthy(model) THEN
            Http_updateState(Http_sendToast(s, <<"Switching to ", model.v>>),
                             "openclaw_current_model", model)
          ELSE s
    IN setTimeout(s1, "fetchStatus", HttpRefreshDelay)

\* handleAction after its await: the branch's outcome, or the catch block,
\* and then the refresh timer.
Http_handleActionResume(s, actionId, o) ==
    LET model == modelLookup(Http_modelMap, actionId)
        s1 ==
          IF ~o.ok THEN Http_sendToast(s, <<"Error: ">> \o slice(o.message, 50))
          ELSE IF Truthy(model) THEN
            IF o.status = 200
            THEN Http_updateState(Http_sendToast(s, <<"Switching to ", model.v>>),
                                  "openclaw_current_model", model)
            ELSE Http_sendToast(s, <<"Switch failed (", StatusText(o.status), ")">>)
          ELSE IF actionId = "openclaw_trigger_heartbeat" THEN
            IF o.status = 200 THEN Http_sendToast(s, <<"Heartbeat triggered">>)
            ELSE Http_sendToast(s, <<"Heartbeat failed (", StatusText(o.status), ")">>)
          ELSE IF actionId = "openclaw_kill_subagents" THEN
            IF o.status = 200 THEN Http_sendToast(s, <<"Sub-agents terminated">>)
            ELSE Http_sendToast(s, <<"Kill failed (", StatusText(o.status), ")">>)
          ELSE IF actionId = "openclaw_toggle_thinking" THEN
            IF o.status = 200 THEN Http_sendToast(s, <<"Thinking mode toggled">>)
            ELSE Http_sendToast(s, <<"Toggle failed (", StatusText(o.status), ")">>)
          ELSE s
    IN setTimeout(s1, "fetchStatus", HttpRefreshDelay)

\* The code that awaits an agent call, resumed with the call's outcome.
Http_resume(s, k, o) ==
    LET s1 == [s EXCEPT !.settled = Append(@, [k |-> k, outcome |-> o])] IN
    IF k.kind = "action" THEN Http_handleActionResume(s1, k.actionId, o)
    ELSE IF k.kind = "fetchStatus" THEN Http_fetchStatusResume(s1, o)
    ELSE s1

AwaitAction(actionId) == [kind |-> "action", actionId |-> actionId]
AwaitStatus == [kind |-> "fetchStatus", actionId |-> ""]
\* The restart request as it would be if handleAction awaited it.
Swallow_awaited == AwaitAction("openclaw_reset_gateway")

Swallow == [kind |-> "catch", actionId |-> ""]

\* new URL(...) throws on a string without a scheme
Schemes == {"http:", "https:", "ws:", "wss:"}
ValidUrl(u) == u # <<>> /\ u[1] \in Schemes

HttpRequest(s, tool, args) ==
    [method |-> "POST", url |-> s.gatewayUrl, path |-> "/tools/invoke",
     authorization |-> <<"Bearer ">> \o s.authToken,
     body |-> [tool |-> tool, args |-> args, sessionKey |-> "main"]]

\* An HTTP request in flight: who awaits it, and its timeout.
InFlight(k, timeout) == [k |-> k, timeout |-> timeout]

\* invokeTool as it would be without req.setTimeout.
Http_invokeTool_noTimeout(s, tool, args, k) ==
    IF ~ValidUrl(s.gatewayUrl) THEN Http_resume(s, k, Rejected(InvalidUrlMessage))
    ELSE [s EXCEPT !.agentSent = Append(@, HttpRequest(s, tool, args)),
                   !.reqs = @ (+) SetToBag({InFlight(k, 0)}),
                   !.lastAction = IF k.kind = "action" THEN k ELSE @]

\* invokeTool as it would be if a request waited for the ones in flight.
Http_invokeTool_serialized(s, tool, args, k) ==
    IF ~ValidUrl(s.gatewayUrl) THEN Http_resume(s, k, Rejected(InvalidUrlMessage))
    ELSE IF s.reqs # EmptyBag THEN s
    ELSE [s EXCEPT !.agentSent = Append(@, HttpRequest(s, tool, args)),
                   !.reqs = @ (+) SetToBag({InFlight(k, HttpTimeout)}),
                   !.lastAction = IF k.kind = "action" THEN k ELSE @]

\* invokeTool up to the point where the request is on its way; an
\* exception in the promise's executor rejects the promise.
Http_invokeTool(s, tool, args, k) ==
    IF ~ValidUrl(s.gatewayUrl) THEN Http_resume(s, k, Rejected(InvalidUrlMessage))
    ELSE [s EXCEPT !.agentSent = Append(@, HttpRequest(s, tool, args)),
                   !.reqs = @ (+) SetToBag({InFlight(k, HttpTimeout)}),
                   !.lastAction = IF k.kind = "action" THEN k ELSE @]

Http_runCommand(s, command, k) ==
    Http_invokeTool(s, "exec", [command |-> command], k)

\* res.on('end') as it would be if a body that does not parse rejected
\* the promise.
Http_onResponseEnd_strict(s, r, status, data) ==
    LET p == JSONparse(data)
        s1 == [s EXCEPT !.reqs = @ (-) SetToBag({r})]
    IN IF p.ok
       THEN Http_resume(s1, r.k,
                Resolved(status, [json |-> TRUE, value |-> p.msg, text |-> <<>>]))
       ELSE Http_resume(s1, r.k, Rejected(data))

\* res.on('end'): the body parsed, or passed on as text
Http_onResponseEnd(s, r, status, data) ==
    LET p == JSONparse(data)
        body == IF p.ok THEN [json |-> TRUE, value |-> p.msg, text |-> <<>>]
                ELSE [json |-> FALSE, value |-> NoMsg, text |-> data]
    IN Http_resume([s EXCEPT !.reqs = @ (-) SetToBag({r})], r.k, Resolved(status, body))

\* req.on('error', reject)
Http_onRequestError(s, r, message) ==
    Http_resume([s EXCEPT !.reqs = @ (-) SetToBag({r})], r.k, Rejected(message))

\* req.setTimeout(10000, () => { req.destroy(); reject(new Error('Timeout')); })
Http_onRequestTimeout(s, r) ==
    Http_resume([s EXCEPT !.reqs = @ (-) SetToBag({r})], r.k, Rejected(TimeoutMessage))

Http_fetchStatus(s) ==
    Http_invokeTool(s, "exec",
        [command |-> <<"openclaw gateway status --short 2>/dev/null || echo \"running\"">>],
        AwaitStatus)

\* handleAction up to its first await; a branch without an await runs to
\* the end of the function.
Http_handleAction(s, actionId) ==
    LET model == modelLookup(Http_modelMap, actionId) IN
    IF Truthy(model) THEN
        Http_runCommand(s, <<"openclaw message webchat '/model ", model.v, "'">>,
                        AwaitAction(actionId))
    ELSE IF actionId = "openclaw_reset_gateway" THEN
        LET s1 == Http_runCommand(s, <<"openclaw gateway restart">>, Swallow)
            s2 == Http_sendToast(s1, <<"Gateway restart initiated">>)
            s3 == Http_updateState(s2, "openclaw_agent_status", JsStr("restarting"))
        IN setTimeout(s3, "fetchStatus", HttpRefreshDelay)
    ELSE IF actionId = "openclaw_trigger_heartbeat" THEN
        Http_runCommand(s,
            <<"echo \"# Manual heartbeat\" > /home/dontcallmejames/.openclaw/workspace/HEARTBEAT.md">>,
            AwaitAction(actionId))
    ELSE IF actionId = "openclaw_kill_subagents" THEN
        Http_invokeTool(s, "subagents", [action |-> <<"kill">>, target |-> <<"all">>],
                        AwaitAction(actionId))
    ELSE IF actionId = "openclaw_toggle_thinking" THEN
        Http_runCommand(s, <<"openclaw message webchat '/reasoning'">>,
                        AwaitAction(actionId))
    ELSE setTimeout(s, "fetchStatus", HttpRefreshDelay)

\* The settings branch as it would be if it did not test the trimmed token.
Http_onSettings_noTrimTest(s, values) ==
    LET settings == parseSettings(values)
        url == Prop(settings, "gateway_url")
        tok == Prop(settings, "auth_token")
        s1 == IF url # <<>> THEN [s EXCEPT !.gatewayUrl = StripSlash(StripWs(url))] ELSE s
        s2 == IF tok # <<>> THEN [s1 EXCEPT !.authToken = trim(tok, " ")] ELSE s1
    IN setTimeout(s2, "fetchStatus", HttpSettingsDelay)

Http_onSettings(s, values) ==
    LET settings == parseSettings(values)
        url == Prop(settings, "gateway_url")
        tok == Prop(settings, "auth_token")
        s1 == IF url # <<>> THEN [s EXCEPT !.gatewayUrl = StripSlash(StripWs(url))] ELSE s
        s2 == IF tok # <<>> /\ trim(tok, " ") # <<>>
              THEN [s1 EXCEPT !.authToken = trim(tok, " ")] ELSE s1
    IN setTimeout(s2, "fetchStatus", HttpSettingsDelay)

\* One line of the data handler's loop.
Http_onLine(s, line) ==
    LET trimmed == trim(line, SP) IN
    IF trimmed = <<>> THEN s
    ELSE LET p == JSONparse(trimmed) IN
         IF ~p.ok THEN s
         ELSE IF p.msg.type = "action" THEN Http_handleAction(s, p.msg.actionId)
         ELSE IF p.msg.type = "settings" THEN Http_onSettings(s, p.msg.values)
         ELSE IF p.msg.type = "closePlugin" THEN [s EXCEPT !.running = FALSE]
         ELSE s

RECURSIVE Http_forLines(_, _)
Http_forLines(s, lines) ==
    IF lines = <<>> THEN s ELSE Http_forLines(Http_onLine(s, Head(lines)), Tail(lines))

\* tpSocket.on('data'): the last piece of the split stays in the buffer
Http_tpOnData(s, chunk) ==
    LET lines == split(s.buf \o toString(chunk)) IN
    Http_forLines([s EXCEPT !.buf = lines[Len(lines)]],
                  SubSeq(lines, 1, Len(lines) - 1))

\* The connect handler as it would be if it did not pair.
Http_tpOnConnect_noPair(s) ==
    setInterval(setTimeout(s, "fetchStatus", HttpInitialDelay), "interval", StatusPeriod)

Http_tpOnConnect(s) ==
    LET s1 == Http_sendToTP(s, [type |-> "pair", id |-> pluginId])
        s2 == setTimeout(s1, "fetchStatus", HttpInitialDelay)
    IN setInterval(s2, "interval", StatusPeriod)

Http_tpOnClose(s) == clearInterval([s EXCEPT !.running = FALSE])

(***************************************************************************)
(* Local variant: src/plugin.js.  The text a command prints is a sequence  *)
(* of lines, a line a sequence of words.                                   *)
(***************************************************************************)
\* if (this.ws && this.ws.readyState === WebSocket.OPEN) this.ws.send(...)
Local_sendMessage(s, msg) ==
    IF s.tp = "open" THEN [s EXCEPT !.tpSent = Append(@, msg)] ELSE s

Local_sendToast(s, message) == Local_sendMessage(s, Toast(message))

\* line.includes(word)
includes(line, word) == \E i \in DOMAIN line : line[i] = word

\* .toLowerCase()
toLowerCase(line) ==
    [i \in DOMAIN line |-> IF line[i] = "Running" THEN "running" ELSE line[i]]

\* line.split('default')[1].trim().split(' ')[0]: the word after the first
\* 'default', or the empty string when none follows
wordAfterDefault(line) ==
    LET i == CHOOSE x \in DOMAIN line :
                line[x] = "default" /\ \A y \in 1..(x - 1) : line[y] # "default"
    IN IF i < Len(line) THEN line[i + 1] ELSE ""

StatusRecord(model, status, uptime) ==
    [model |-> model, status |-> status, uptime |-> uptime]

\* The first line of the loop that matches, 0 when none does.
firstLine(matching) ==
    IF matching = {} THEN 0 ELSE CHOOSE i \in matching : \A j \in matching : i <= j

parseStatusOutput(output) ==
    LET sess == firstLine({i \in DOMAIN output :
                    includes(output[i], "Sessions") /\ includes(output[i], "default")})
        gw == firstLine({i \in DOMAIN output : includes(output[i], "Gateway service")})
    IN StatusRecord(
         IF sess # 0 THEN wordAfterDefault(output[sess]) ELSE "unknown",
         IF sess # 0 THEN "online" ELSE "offline",
         IF gw # 0 /\ includes(toLowerCase(output[gw]), "running")
         THEN "gateway" ELSE "0s")

\* The result runOpenClawCommand resolves with.
ProcResult(code, stdout, stderr) == [code |-> code, stdout |-> stdout, stderr |-> stderr]

Spawned(s, args) == [cmd |-> s.openclawPath, args |-> args, cwd |-> s.workspaceDir]

\* spawn(this.openclawPath, args, {cwd: this.workspaceDir, timeout: 10000})
Local_runOpenClawCommand(s, args, k) ==
    [s EXCEPT !.agentSent = Append(@, Spawned(s, args)),
              !.reqs = @ (+) SetToBag({InFlight(k, SpawnTimeout)}),
              !.lastAction = IF k.kind = "action" THEN k ELSE @]

AwaitStatus1 == [kind |-> "status", actionId |-> ""]
AwaitStatus2 == [kind |-> "gatewayStatus", actionId |-> ""]

\* updateStates as it would be if it published the agent status alone.
Local_publish_statusOnly(s, status) ==
    Local_sendMessage(s, StateUpdate(
        <<State("openclaw_agent_status", JsStr(status.status))>>))

Local_publish(s, status) ==
    Local_sendMessage(s, StateUpdate(
        <<State("openclaw_current_model", JsStr(status.model)),
          State("openclaw_agent_status", JsStr(status.status)),
          State("openclaw_uptime", JsStr(status.uptime))>>))

\* updateStates up to getAgentStatus's first await
Local_updateStates(s) == Local_runOpenClawCommand(s, <<"status">>, AwaitStatus1)

\* getAgentStatus after its first await, and updateStates after it
Local_statusResume(s, result) ==
    LET parsed == parseStatusOutput(result.stdout) IN
    IF result.code = 0 /\ parsed.status = "online" THEN Local_publish(s, parsed)
    ELSE Local_runOpenClawCommand(s, <<"gateway", "status">>, AwaitStatus2)

\* getAgentStatus after its second await, and updateStates after it
Local_gatewayStatusResume(s, result) ==
    IF result.code = 0
       /\ \E i \in DOMAIN result.stdout : includes(toLowerCase(result.stdout[i]), "running")
    THEN Local_publish(s, StatusRecord("unknown", "online", "gateway"))
    ELSE Local_publish(s, StatusRecord("unknown", "offline", "0s"))

CommandToast(s, result, done, failed) ==
    IF result.code = 0 THEN Local_sendToast(s, <<done>>)
    ELSE Local_sendToast(s, <<failed>> \o slice(result.stderr, 50))

\* handleAction after its await, to the end of the function
Local_handleActionResume(s, actionId, result) ==
    LET model == modelLookup(Local_modelMap, actionId)
        s1 ==
          IF Truthy(model) THEN
            IF result.code = 0 THEN Local_sendToast(s, <<"Switching to ", model.v>>)
            ELSE Local_sendToast(s, <<"Switch failed: ">> \o slice(result.stderr, 50))
          ELSE IF actionId = "openclaw_reset_gateway" THEN
            CommandToast(s, result, "Gateway restart initiated", "Restart failed: ")
          ELSE IF actionId = "openclaw_kill_subagents" THEN
            CommandToast(s, result, "Sub-agents terminated", "Kill failed: ")
          ELSE IF actionId = "openclaw_toggle_thinking" THEN
            CommandToast(s, result, "Thinking mode toggled", "Toggle failed: ")
          ELSE s
    IN setTimeout(s1, "updateStates", LocalRefreshDelay)

\* handleAction up to its first await; fileErr is the message of the error
\* fs.writeFileSync throws, empty when it succeeds
Local_handleAction(s, actionId, fileErr) ==
    LET model == modelLookup(Local_modelMap, actionId) IN
    IF Truthy(model) THEN
        Local_runOpenClawCommand(s, <<"message", "webchat", "/model ", model.v>>,
                                 AwaitAction(actionId))
    ELSE IF actionId = "openclaw_reset_gateway" THEN
        Local_runOpenClawCommand(s, <<"gateway", "restart">>, AwaitAction(actionId))
    ELSE IF actionId = "openclaw_trigger_heartbeat" THEN
        setTimeout(
            IF fileErr = <<>> THEN Local_sendToast(s, <<"Heartbeat triggered">>)
            ELSE Local_sendToast(s, <<"Heartbeat failed: ">> \o slice(fileErr, 50)),
            "updateStates", LocalRefreshDelay)
    ELSE IF actionId = "openclaw_kill_subagents" THEN
        Local_runOpenClawCommand(s, <<"subagents", "kill", "all">>, AwaitAction(actionId))
    ELSE IF actionId = "openclaw_toggle_thinking" THEN
        Local_runOpenClawCommand(s, <<"message", "webchat", "/reasoning">>,
                                 AwaitAction(actionId))
    ELSE setTimeout(s, "updateStates", LocalRefreshDelay)

\* cmd.on('close') / cmd.on('error'): the promise resolves, the awaiting
\* code goes on
Local_onProcessDone(s, r, result) ==
    LET s1 == [s EXCEPT !.reqs = @ (-) SetToBag({r}),
                        !.settled = Append(@, [k |-> r.k, outcome |-> result])]
    IN IF r.k.kind = "action" THEN Local_handleActionResume(s1, r.k.actionId, result)
       ELSE IF r.k.kind = "status" THEN Local_statusResume(s1, result)
       ELSE Local_gatewayStatusResume(s1, result)

Local_onSettings(s, values) ==
    LET settings == OrEmptyObject(values)
        path == Prop(settings, "openclaw_path")
        dir == Prop(settings, "openclaw_workspace")
    IN [s EXCEPT !.openclawPath = IF path # <<>> THEN path ELSE @,
                 !.workspaceDir = IF dir # <<>> THEN dir ELSE @]

Local_onMessage(s, data, fileErr) ==
    LET p == JSONparse(data) IN
    IF ~p.ok THEN s
    ELSE IF p.msg.type = "action" THEN Local_handleAction(s, p.msg.actionId, fileErr)
    ELSE IF p.msg.type = "settings" THEN Local_onSettings(s, p.msg.values)
    ELSE IF p.msg.type = "closePlugin" THEN [s EXCEPT !.running = FALSE]
    ELSE s

Local_onOpen(s) ==
    LET s1 == Local_sendMessage(s, [type |-> "info", id |-> pluginId, version |-> "1.0.0"])
        s2 == setInterval(s1, "interval", StatusPeriod)
    IN Local_updateStates(s2)

Local_onClose(s) == clearInterval([s EXCEPT !.running = FALSE])

(***************************************************************************)
(* Inputs: the frames the panel host sends and the gateway's messages.     *)
(***************************************************************************)
UrlWs == <<"http:", "//gw", "/", "w", "s">>
UrlSlash == <<"http:", "//gw", "/">>
UrlGw == <<"ws:", "//gw", "/", "w", "s">>
UrlBlank == <<" ">>
TokA == <<"tokA">>
TokPadded == <<" ", "tokB", " ">>
TokBlank == <<" ">>
PathB == <<"/opt/openclaw">>
DirB == <<"/srv/workspace">>

Http_SettingsObjs ==
    { ("gateway_url" :> UrlWs),
      ("gateway_url" :> UrlSlash) @@ ("auth_token" :> TokPadded),
      ("gateway_url" :> <<>>) @@ ("auth_token" :> TokBlank),
      ("gateway_url" :> UrlBlank),
      EmptyObj }

Ws_SettingsObjs ==
    { ("gateway_url" :> UrlGw),
      ("gateway_url" :> <<>>) @@ ("auth_token" :> TokA),
      EmptyObj }

Local_SettingsObjs ==
    { ("openclaw_path" :> PathB),
      ("openclaw_path" :> <<>>) @@ ("openclaw_workspace" :> DirB),
      EmptyObj }

\* The array form of an object: one single-key object per setting.
RECURSIVE ArrayOf(_)
ArrayOf(obj) ==
    IF DOMAIN obj = {} THEN <<>>
    ELSE LET k == CHOOSE x \in DOMAIN obj : TRUE
             rest == [y \in DOMAIN obj \ {k} |-> obj[y]]
         IN <<(k :> obj[k])>> \o ArrayOf(rest)

SettingsObjs(v) ==
    IF v = "local" THEN Local_SettingsObjs
    ELSE IF v = "ws" THEN Ws_SettingsObjs ELSE Http_SettingsObjs

SettingsValues(v) ==
    {NoValues} \cup {FlatValues(o) : o \in SettingsObjs(v)}
               \cup {ArrayValues(ArrayOf(o)) : o \in SettingsObjs(v)}

\* The messages a frame of a run can carry.  The five model switches take
\* the same path through the code, so two of them stand for all in the
\* frames; the claims apply the handlers to every identifier.
TpMsgs(v) ==
    {[type |-> "action", actionId |-> a] :
        a \in ActionIds \ {"openclaw_switch_model_ollama", "openclaw_switch_model_gpt4o",
                           "openclaw_switch_model_gemini"}}
      \cup {[type |-> "settings", values |-> x] : x \in SettingsValues(v)}
      \cup {[type |-> "closePlugin"], [type |-> "info"]}

Garbage == <<Sym("x")>>

\* A settings message whose token holds a two-byte character.
AccentSettings == [type |-> "settings", values |-> FlatValues(("auth_token" :> <<"tok", "U+00E9">>))]

\* What one WebSocket frame from the panel host can carry.
TpFrames(v) == {Json(m) : m \in TpMsgs(v)} \cup {Garbage}

\* What one TCP data event from the panel host can carry: whole lines,
\* several lines, padded and blank lines, and pieces of a line.
Line(m) == Json(m) \o <<NL>>
ResetAction == [type |-> "action", actionId |-> "openclaw_reset_gateway"]
ClosePlugin == [type |-> "closePlugin"]

Http_Chunks ==
    {Line(m) : m \in TpMsgs("http")}
      \cup {Garbage \o <<NL>>,
            Garbage \o <<NL>> \o Line(ClosePlugin),
            Garbage \o <<NL>> \o Line(ResetAction),
            Line(ResetAction) \o Line(ClosePlugin),
            Line([type |-> "action", actionId |-> "openclaw_switch_model_deepseek"])
              \o Line([type |-> "action", actionId |-> "openclaw_switch_model_ollama"]),
            <<SP>> \o Json(ResetAction) \o <<SP, NL>>,
            <<SP, NL>>,
            <<Sym("{"), Body(ResetAction)>>,
            <<Sym("{"), BytesTo(AccentSettings), BytesFrom(AccentSettings), Sym("}"), NL>>,
            <<Sym("{"), BytesTo(AccentSettings)>>,
            <<BytesFrom(AccentSettings), Sym("}"), NL>>,
            <<Sym("}"), NL>>}

\* What the agent can answer over HTTP, and how a request can fail.
StatusCodes == {200, 500}
ResponseBodies == {Json([type |-> "result"]), Garbage}
ErrShort == <<"E", "C", "O", "N", "N", "R", "E", "S", "E", "T">>
ErrLong == [i \in 1..51 |-> "e"]
ErrorMessages == {ErrShort, ErrLong}

\* What fs.writeFileSync can throw: nothing, or an error with a message.
FileErrors == {<<>>, ErrLong}

\* What a command of the agent's tool can print and return.
ProcResults ==
    {ProcResult(0, <<<<"Sessions", "default", "some/model", "12k">>,
                     <<"Gateway service", "Running">>>>, <<>>),
     ProcResult(0, <<<<"Sessions", "default">>>>, <<>>),
     ProcResult(0, <<<<"Runtime:", "running">>>>, <<>>),
     ProcResult(0, <<<<"Gateway service", "stopped">>>>, <<>>),
     ProcResult(1, <<>>, ErrLong),
     ProcResult(-1, <<>>, ErrShort)}

GwFrames ==
    {Json(GwMsg(7, TRUE, TRUE, JsStr("some/model"))),
     Json(GwMsg(1, TRUE, TRUE, [type |-> "number", v |-> "42"])),
     Json(GwMsg(1, TRUE, TRUE, Undefined)),
     Json(GwMsg(1, TRUE, FALSE, Undefined)),
     Json(GwMsg(1, FALSE, FALSE, Undefined)),
     Garbage}

(***************************************************************************)
(* Initial state: the constructor has run and run() has started the        *)
(* control-channel connection.                                             *)
(***************************************************************************)
Http_DefaultUrl == <<"http:", "//192.168.1.191:18789">>
Local_DefaultPath == <<"/usr/local/bin/openclaw">>
Local_DefaultDir == <<"/home/dontcallmejames/.openclaw/workspace">>

Init ==
    /\ variant \in {"http", "ws", "local"}
    /\ running = TRUE
    /\ exited = FALSE
    /\ loop = "sleeping"
    /\ tp = "connecting"
    /\ statusInterval = FALSE
    /\ timers = EmptyBag
    /\ gatewayUrl = (IF variant = "http" THEN Http_DefaultUrl
                     ELSE IF variant = "ws" THEN Ws_DefaultUrl ELSE <<>>)
    /\ authToken = (IF variant = "local" THEN <<>> ELSE DefaultToken)
    /\ openclawPath = (IF variant = "local" THEN Local_DefaultPath ELSE <<>>)
    /\ workspaceDir = (IF variant = "local" THEN Local_DefaultDir ELSE <<>>)
    /\ ocSocks = [i \in 1..MaxSockets |-> FreeSock]
    /\ ocWs = 0
    /\ reqId = 1
    /\ reqs = EmptyBag
    /\ buf = <<>>
    /\ ev = [type |-> "init"]
    /\ tpSent = <<>>
    /\ agentSent = <<>>
    /\ connects = 0
    /\ rpcRet = <<>>
    /\ settled = <<>>
    /\ maxId = 0
    /\ lastAction = [kind |-> "none", actionId |-> ""]
    /\ nFrames = 0

(***************************************************************************)
(* Actions common to the variants.                                         *)
(***************************************************************************)
\* while (this.running) await new Promise(r => setTimeout(r, 1000))
KeepAlive ==
    /\ ~exited /\ loop = "sleeping" /\ ~running
    /\ Set([S EXCEPT !.loop = "done"], [type |-> "keepAlive"])
    /\ UNCHANGED nFrames

\* process.on('SIGINT'): running = false; process.exit(0).  The process is
\* gone: nothing of it is left to act.
Sigint ==
    /\ ~exited
    /\ Set([S EXCEPT !.running = FALSE, !.exited = TRUE, !.loop = "done",
                     !.tp = "closed", !.timers = EmptyBag, !.reqs = EmptyBag,
                     !.ocSocks = [i \in DOMAIN ocSocks |-> FreeSock],
                     !.ocWs = 0, !.buf = <<>>],
           [type |-> "SIGINT"])
    /\ UNCHANGED nFrames

(***************************************************************************)
(* Actions of the WebSocket variant.                                       *)
(***************************************************************************)
Ws_TpOpen ==
    /\ variant = "ws" /\ ~exited /\ tp = "connecting"
    /\ Set(Ws_tpOnOpen([S EXCEPT !.tp = "open"]), [type |-> "tpOpen"])
    /\ UNCHANGED nFrames

Ws_TpMessage ==
    /\ variant = "ws" /\ ~exited /\ tp = "open" /\ nFrames < MaxFrames
    /\ \E data \in TpFrames("ws") :
          Set(Ws_tpOnMessage(S, data), [type |-> "tpMessage", data |-> data])
    /\ nFrames' = nFrames + 1

Ws_TpClose ==
    /\ variant = "ws" /\ ~exited /\ tp \in {"connecting", "open"}
    /\ Set(Ws_tpOnClose([S EXCEPT !.tp = "closed"]), [type |-> "tpClose"])
    /\ UNCHANGED nFrames

Ws_OcOpen ==
    /\ variant = "ws" /\ ~exited
    /\ \E i \in DOMAIN ocSocks :
          /\ ocSocks[i].state = "connecting"
          /\ Set(Ws_ocOnOpen([S EXCEPT !.ocSocks[i].state = "open"]),
                 [type |-> "ocOpen", sock |-> i])
    /\ UNCHANGED nFrames

Ws_OcMessage ==
    /\ variant = "ws" /\ ~exited
    /\ \E i \in DOMAIN ocSocks, data \in GwFrames :
          /\ ocSocks[i].state = "open"
          /\ Set(Ws_ocOnMessage(S, data), [type |-> "ocMessage", sock |-> i, data |-> data])
    /\ UNCHANGED nFrames

\* An error event is followed by the socket's close event.
Ws_OcError ==
    /\ variant = "ws" /\ ~exited
    /\ \E i \in DOMAIN ocSocks :
          /\ ocSocks[i].state \in {"connecting", "open"}
          /\ Set(Ws_ocOnError([S EXCEPT !.ocSocks[i].state = "closing"]),
                 [type |-> "ocError", sock |-> i])
    /\ UNCHANGED nFrames

Ws_OcClose ==
    /\ variant = "ws" /\ ~exited
    /\ \E i \in DOMAIN ocSocks :
          /\ ocSocks[i].state \in {"connecting", "open", "closing"}
          /\ Set(Ws_ocOnClose([S EXCEPT !.ocSocks[i].state = "closed"]),
                 [type |-> "ocClose", sock |-> i])
    /\ UNCHANGED nFrames

\* The callback of timer t; an interval stays scheduled.
Ws_timerCallback(s, t) ==
    IF t.cb = "interval" THEN Ws_fetchStatus(s)
    ELSE LET rest == [s EXCEPT !.timers = @ (-) SetToBag({t})] IN
         IF t.cb = "fetchStatus" THEN Ws_fetchStatus(rest)
         ELSE Ws_connectToGateway(rest)

Ws_TimerFire ==
    /\ variant = "ws" /\ ~exited
    /\ \E t \in BagToSet(timers) :
          Set(Ws_timerCallback(S, t), [type |-> "timer", cb |-> t.cb, delay |-> t.delay])
    /\ UNCHANGED nFrames

(***************************************************************************)
(* Actions of the HTTP variant.                                            *)
(***************************************************************************)
Http_TpConnect ==
    /\ variant = "http" /\ ~exited /\ tp = "connecting"
    /\ Set(Http_tpOnConnect([S EXCEPT !.tp = "open"]), [type |-> "tpOpen"])
    /\ UNCHANGED nFrames

Http_TpData ==
    /\ variant = "http" /\ ~exited /\ tp = "open" /\ nFrames < MaxFrames
    /\ \E chunk \in Http_Chunks :
          Set(Http_tpOnData(S, chunk), [type |-> "tpData", data |-> chunk, buf |-> buf])
    /\ nFrames' = nFrames + 1

Http_TpClose ==
    /\ variant = "http" /\ ~exited /\ tp \in {"connecting", "open"}
    /\ Set(Http_tpOnClose([S EXCEPT !.tp = "closed"]), [type |-> "tpClose"])
    /\ UNCHANGED nFrames

\* Every timer of this variant calls fetchStatus; an interval stays scheduled.
Http_timerCallback(s, t) ==
    IF t.cb = "interval" THEN Http_fetchStatus(s)
    ELSE Http_fetchStatus([s EXCEPT !.timers = @ (-) SetToBag({t})])

Http_TimerFire ==
    /\ variant = "http" /\ ~exited
    /\ \E t \in BagToSet(timers) :
          Set(Http_timerCallback(S, t), [type |-> "timer", cb |-> t.cb, delay |-> t.delay])
    /\ UNCHANGED nFrames

Http_ResponseEnd ==
    /\ variant = "http" /\ ~exited
    /\ \E r \in BagToSet(reqs), status \in StatusCodes, data \in ResponseBodies :
          Set(Http_onResponseEnd(S, r, status, data),
              [type |-> "responseEnd", k |-> r.k, status |-> status, data |-> data,
               last |-> lastAction])
    /\ UNCHANGED nFrames

Http_RequestError ==
    /\ variant = "http" /\ ~exited
    /\ \E r \in BagToSet(reqs), message \in ErrorMessages :
          Set(Http_onRequestError(S, r, message),
              [type |-> "requestError", k |-> r.k, message |-> message])
    /\ UNCHANGED nFrames

Http_RequestTimeout ==
    /\ variant = "http" /\ ~exited
    /\ \E r \in BagToSet(reqs) :
          /\ r.timeout > 0
          /\ Set(Http_onRequestTimeout(S, r),
                 [type |-> "requestTimeout", k |-> r.k, delay |-> r.timeout])
    /\ UNCHANGED nFrames

Http_Next ==
    \/ Http_TpConnect
    \/ Http_TpData
    \/ Http_TpClose
    \/ Http_TimerFire
    \/ Http_ResponseEnd
    \/ Http_RequestError
    \/ Http_RequestTimeout

(***************************************************************************)
(* Actions of the local variant.                                           *)
(***************************************************************************)
Local_TpOpen ==
    /\ variant = "local" /\ ~exited /\ tp = "connecting"
    /\ Set(Local_onOpen([S EXCEPT !.tp = "open"]), [type |-> "tpOpen"])
    /\ UNCHANGED nFrames

Local_TpMessage ==
    /\ variant = "local" /\ ~exited /\ tp = "open" /\ nFrames < MaxFrames
    /\ \E data \in TpFrames("local"), fileErr \in FileErrors :
          Set(Local_onMessage(S, data, fileErr),
              [type |-> "tpMessage", data |-> data, fileErr |-> fileErr])
    /\ nFrames' = nFrames + 1

Local_TpClose ==
    /\ variant = "local" /\ ~exited /\ tp \in {"connecting", "open"}
    /\ Set(Local_onClose([S EXCEPT !.tp = "closed"]), [type |-> "tpClose"])
    /\ UNCHANGED nFrames

\* Every timer of this variant calls updateStates.
Local_timerCallback(s, t) ==
    IF t.cb = "interval" THEN Local_updateStates(s)
    ELSE Local_updateStates([s EXCEPT !.timers = @ (-) SetToBag({t})])

Local_TimerFire ==
    /\ variant = "local" /\ ~exited
    /\ \E t \in BagToSet(timers) :
          Set(Local_timerCallback(S, t), [type |-> "timer", cb |-> t.cb, delay |-> t.delay])
    /\ UNCHANGED nFrames

Local_ProcessDone ==
    /\ variant = "local" /\ ~exited
    /\ \E r \in BagToSet(reqs), result \in ProcResults :
          Set(Local_onProcessDone(S, r, result),
              [type |-> "processDone", k |-> r.k, result |-> result])
    /\ UNCHANGED nFrames

Local_Next ==
    \/ Local_TpOpen
    \/ Local_TpMessage
    \/ Local_TpClose
    \/ Local_TimerFire
    \/ Local_ProcessDone

Ws_Next ==
    \/ Ws_TpOpen
    \/ Ws_TpMessage
    \/ Ws_TpClose
    \/ Ws_OcOpen
    \/ Ws_OcMessage
    \/ Ws_OcError
    \/ Ws_OcClose
    \/ Ws_TimerFire

Next ==
    \/ Http_Next
    \/ Ws_Next
    \/ Local_Next
    \/ KeepAlive
    \/ Sigint

Spec == Init /\ [][Next]_vars

\* The keep-alive loop wakes every second: an iteration that can run does.
FairSpec == Spec /\ WF_vars(KeepAlive)

(***************************************************************************)
(* What a step did, read from the variables that describe it.              *)
(***************************************************************************)
\* The texts the control-channel handler tried to parse in the step e: the
\* frame, or the trimmed non-blank lines completed by the chunk.
Delivered(e) ==
    IF e.type = "tpMessage" THEN <<e.data>>
    ELSE IF e.type = "tpData" THEN
        LET lines == split(e.buf \o toString(e.data))
            whole == [i \in 1..(Len(lines) - 1) |-> trim(lines[i], SP)]
            NonBlank(x) == x # <<>>
        IN SelectSeq(whole, NonBlank)
    ELSE <<>>

\* The messages the step dispatched, in order.
Msgs(e) ==
    LET Parses(x) == JSONparse(x).ok
        good == SelectSeq(Delivered(e), Parses)
    IN [i \in DOMAIN good |-> JSONparse(good[i]).msg]

Malformed(e) == \E i \in DOMAIN Delivered(e) : ~JSONparse(Delivered(e)[i]).ok

\* The step dispatched exactly the message m.
Only(e, m) == Msgs(e) = <<m>> /\ ~Malformed(e)

ActionMsg(a) == [type |-> "action", actionId |-> a]

IsToast(m) == m.type = "showNotification"
Toasts(sent) == {i \in DOMAIN sent : IsToast(sent[i])}

Settings == <<gatewayUrl, authToken, openclawPath, workspaceDir>>
SettingsOf(s) == <<s.gatewayUrl, s.authToken, s.openclawPath, s.workspaceDir>>

ReconnectTimer == Timer("connectToGateway", ReconnectDelay)
ReconnectPending == \E t \in BagToSet(timers) : t.cb = "connectToGateway"

GatewayOpen == ocWs # 0 /\ ocSocks[ocWs].state = "open"

CarriesGatewayUrl(m) ==
    m.type = "settings" /\ Prop(OrEmptyObject(m.values), "gateway_url") # <<>>

C2_TimersClearedOnShutdown ==
    (~running /\ ~exited /\ ev.type = "timer") =>
        /\ ev.cb # "interval"
        /\ ~(ev.cb = "connectToGateway" /\ connects > 0)

(***************************************************************************)
(* C3, as the specification states it: a dispatch of an action identifier  *)
(* that is neither a key of the model table nor one of the four commands   *)
(* surfaces no notification, sends no request to the agent and schedules   *)
(* nothing that would send one.                                            *)
(***************************************************************************)
C3_UnknownActionInert ==
    [][\A a \in ActionIds \ KnownIds :
          Only(ev', ActionMsg(a)) =>
              /\ tpSent' = <<>>
              /\ agentSent' = <<>>
              /\ timers' = timers
      ]_vars

(***************************************************************************)
(* C4, as the specification states it: the dispatch of a known action      *)
(* identifier sends exactly one agent request for the command, and when    *)
(* the command succeeds a stateUpdate or showNotification is written to    *)
(* the panel host.                                                         *)
(***************************************************************************)
C4_ExactlyOneRequest ==
    \A a \in KnownIds :
        /\ Only(ev, ActionMsg(a)) => Len(agentSent) = 1
        /\ (ev.type = "responseEnd" /\ ev.k = AwaitAction(a) /\ ev.status = 200) =>
              tpSent # <<>>
        /\ (ev.type = "processDone" /\ ev.k = AwaitAction(a) /\ ev.result.code = 0) =>
              tpSent # <<>>

HttpRefresh == Timer("fetchStatus", HttpRefreshDelay)
WsRefresh == Timer("fetchStatus", WsRefreshDelay)
LocalRefresh == Timer("updateStates", LocalRefreshDelay)

(***************************************************************************)
(* C4, amended (in every state in which the panel host can send a frame,   *)
(* and for every action request in flight): for every known action         *)
(* identifier one dispatch sends at most one agent request for the         *)
(* command: exactly one in the HTTP variant                                *)
(* when the endpoint URL parses, in the WebSocket variant when the gateway *)
(* socket is OPEN, and in the local variant for every identifier except    *)
(* trigger_heartbeat, which writes the file itself; none otherwise.  When  *)
(* the command succeeds (HTTP 200, exit code 0; at dispatch in the         *)
(* WebSocket variant, for reset_gateway over HTTP and for the local        *)
(* heartbeat) and the control channel is still writable, a                 *)
(* showNotification is written in the very handler run that afterwards     *)
(* schedules the post-action refresh, hence before that refresh fires.     *)
(***************************************************************************)
C4_KnownAction ==
    \A a \in KnownIds :
        /\ (variant = "http" /\ tp = "open" /\ buf = <<>>) =>
              LET r == Http_tpOnData(S, Line(ActionMsg(a))) IN
              /\ Len(r.agentSent) = IF ValidUrl(gatewayUrl) THEN 1 ELSE 0
              /\ a = "openclaw_reset_gateway" =>
                    /\ Toasts(r.tpSent) # {}
                    /\ r.timers = timers (+) SetToBag({HttpRefresh})
        /\ (variant = "http" /\ tp # "closed"
              /\ BagIn(InFlight(AwaitAction(a), HttpTimeout), reqs)) =>
              \A data \in ResponseBodies :
                  LET r == Http_onResponseEnd(S, InFlight(AwaitAction(a), HttpTimeout),
                                              200, data) IN
                  /\ Toasts(r.tpSent) # {}
                  /\ r.timers = timers (+) SetToBag({HttpRefresh})
        /\ (variant = "ws" /\ tp = "open") =>
              LET r == Ws_tpOnMessage(S, Json(ActionMsg(a))) IN
              /\ Len(r.agentSent) = IF GatewayOpen THEN 1 ELSE 0
              /\ Toasts(r.tpSent) # {}
              /\ r.timers = timers (+) SetToBag({WsRefresh})
        /\ (variant = "local" /\ tp = "open") =>
              \A fileErr \in FileErrors :
                  LET r == Local_onMessage(S, Json(ActionMsg(a)), fileErr) IN
                  IF a = "openclaw_trigger_heartbeat"
                  THEN /\ r.agentSent = <<>>
                       /\ Toasts(r.tpSent) # {}
                       /\ r.timers = timers (+) SetToBag({LocalRefresh})
                  ELSE Len(r.agentSent) = 1
        /\ (variant = "local" /\ tp = "open"
              /\ BagIn(InFlight(AwaitAction(a), SpawnTimeout), reqs)) =>
              \A result \in {x \in ProcResults : x.code = 0} :
                  LET r == Local_onProcessDone(S, InFlight(AwaitAction(a), SpawnTimeout),
                                               result) IN
                  /\ Toasts(r.tpSent) # {}
                  /\ r.timers = timers (+) SetToBag({LocalRefresh})

\* An action's HTTP request was answered 200 and the toast went out in the
\* step that scheduled the refresh.
C4_Witness ==
    /\ variant = "http" /\ ev.type = "responseEnd" /\ ev.status = 200
    /\ ev.k.kind = "action" /\ ev.k.actionId \in KnownIds
    /\ Toasts(tpSent) # {}
    /\ CopiesIn(HttpRefresh, timers) > 0

SettingNames == {"gateway_url", "auth_token"}
SettingTexts == {<<>>, UrlWs, TokPadded}
SettingObjects == UNION {[D -> SettingTexts] : D \in SUBSET SettingNames}

\* The arrays of single-key objects that carry the pairs of obj, one each.
Orders(obj) ==
    LET n == Cardinality(DOMAIN obj)
        singles == {(k :> obj[k]) : k \in DOMAIN obj}
    IN {items \in [1..n -> singles] :
            \A i, j \in 1..n : i # j => items[i] # items[j]}

ArrayFormEqualsFlatForm ==
    /\ parseSettings(NoValues) = EmptyObj
    /\ \A obj \in SettingObjects :
          /\ parseSettings(FlatValues(obj)) = obj
          /\ \A items \in Orders(obj) :
                parseSettings(ArrayValues(items)) = parseSettings(FlatValues(obj))

(***************************************************************************)
(* C5: for every set of setting name/value pairs with distinct names,      *)
(* parseSettings of the array of single-key objects, in any order, equals  *)
(* parseSettings of the flat object, which is the object itself; absent    *)
(* values give the empty mapping (parseSettings exists in the HTTP variant *)
(* only).                                                                  *)
(***************************************************************************)
C5_ParseSettingsNormalizes == variant = "http" => ArrayFormEqualsFlatForm

\* The HTTP variant has received a settings event in array form with two
\* settings, and both were applied.
C5_Witness ==
    /\ variant = "http" /\ Len(Msgs(ev)) = 1 /\ Msgs(ev)[1].type = "settings"
    /\ Msgs(ev)[1].values.form = "array" /\ Len(Msgs(ev)[1].values.items) = 2
    /\ parseSettings(Msgs(ev)[1].values) =
          ("gateway_url" :> UrlSlash) @@ ("auth_token" :> TokPadded)
    /\ gatewayUrl = <<"http:", "//gw">> /\ authToken = <<"tokB">>

OnSettings(s, values) ==
    IF variant = "http" THEN Http_onSettings(s, values)
    ELSE IF variant = "ws" THEN Ws_onSettings(s, values)
    ELSE Local_onSettings(s, values)

(***************************************************************************)
(* C6, as the specification states it: in every variant a settings event   *)
(* whose values are an array of single-key mappings leaves the settings as *)
(* the same pairs in one flat mapping would.                               *)
(***************************************************************************)
C6_ArrayFormApplied ==
    [][LET ms == Msgs(ev') IN
       (Len(ms) = 1 /\ ~Malformed(ev') /\ ms[1].type = "settings"
          /\ ms[1].values.form = "array") =>
           Settings' = SettingsOf(OnSettings(S,
                          FlatValues(reduceAssign(ms[1].values.items, EmptyObj))))
      ]_vars

(***************************************************************************)
(* C7, as the specification states it: the handling of a closePlugin event *)
(* stops the keep-alive loop (running is false) and closes the             *)
(* control-channel connection.                                             *)
(***************************************************************************)
C7_ClosePluginClosesChannel ==
    (\E i \in DOMAIN Msgs(ev) : Msgs(ev)[i].type = "closePlugin") =>
        ~running /\ tp # "open"

RpcMethods == {"status.get", "gateway.restart"}

(***************************************************************************)
(* C8: in the WebSocket variant, in every reachable state, sendGatewayRpc  *)
(* returns null (0 here), sends nothing and leaves reqId alone when the    *)
(* gateway socket is absent or not OPEN; when it is OPEN it sends exactly  *)
(* one envelope and returns its id, reqId, which is greater than every id  *)
(* returned before (maxId), reconnects or not.                             *)
(***************************************************************************)
C8_SendGatewayRpcContract ==
    variant = "ws" =>
        /\ reqId > maxId
        /\ \A method \in RpcMethods :
              LET r == Ws_sendGatewayRpc(S, method, NoParams) IN
              IF GatewayOpen
              THEN /\ r.rpcRet = <<reqId>>
                   /\ Len(r.agentSent) = 1
                   /\ r.agentSent[1].id = reqId
                   /\ r.agentSent[1].method = method
                   /\ r.agentSent[1].sock = ocWs
                   /\ r.reqId = reqId + 1
                   /\ r.maxId = reqId
              ELSE /\ r.rpcRet = <<0>>
                   /\ r.agentSent = <<>>
                   /\ r.reqId = reqId
                   /\ r.maxId = maxId
        /\ \A i \in DOMAIN rpcRet :
              IF rpcRet[i] = 0 THEN agentSent = <<>>
              ELSE /\ agentSent[i].id = rpcRet[i]
                   /\ rpcRet[i] = maxId
                   /\ reqId = maxId + 1

\* A second envelope went out, with the second id.
C8_Witness ==
    /\ variant = "ws" /\ rpcRet = <<2>>
    /\ Len(agentSent) = 1 /\ agentSent[1].id = 2

LaterMsgs == {ResetAction, ClosePlugin, [type |-> "settings", values |-> NoValues]}

(***************************************************************************)
(* C9: a control-channel frame (or line) that fails to parse changes       *)
(* nothing: settings, running, the connection, timers and requests stay as *)
(* they are, nothing is sent, so frames that follow are dispatched as if   *)
(* it had not arrived; in the TCP data handler the lines after a malformed *)
(* line of the same chunk are dispatched as if they had come alone.        *)
(***************************************************************************)
C9_MalformedFrameDiscarded ==
    /\ (tp = "open") =>
        /\ variant = "ws" => Ws_tpOnMessage(S, Garbage) = S
        /\ variant = "local" =>
              \A fileErr \in FileErrors : Local_onMessage(S, Garbage, fileErr) = S
        /\ variant = "http" =>
              LET clean == [S EXCEPT !.buf = <<>>] IN
              /\ Http_tpOnData(S, Garbage \o <<NL>>) = clean
              /\ \A m \in LaterMsgs :
                    Http_tpOnData(S, Garbage \o <<NL>> \o Line(m)) =
                        Http_tpOnData(clean, Line(m))
    /\ (Malformed(ev) /\ Msgs(ev) = <<>>) =>
          tpSent = <<>> /\ agentSent = <<>> /\ connects = 0

\* One chunk carried a malformed line and then an action: the action's
\* request went out and the connection is as it was.
C9_Witness ==
    /\ variant = "http" /\ ev.type = "tpData"
    /\ ev.data = Garbage \o <<NL>> \o Line(ResetAction)
    /\ Len(agentSent) = 1 /\ running /\ tp = "open"

SettleEvents == {"responseEnd", "requestError", "requestTimeout"}

StateValues(sent, stateId) ==
    {sent[p[1]].states[p[2]].value :
        p \in {q \in (DOMAIN sent) \X (1..3) :
                  /\ sent[q[1]].type = "stateUpdate"
                  /\ q[2] \in DOMAIN sent[q[1]].states
                  /\ sent[q[1]].states[q[2]].id = stateId}}

ModelSwitchCommand(a) == <<"openclaw message webchat '/model ", Http_modelMap[a], "'">>
ModelSwitchRequest(a) == InFlight(AwaitAction(a), HttpTimeout)

(***************************************************************************)
(* C11: in the HTTP variant, for every model-switch action identifier, the *)
(* dispatch sends (when the endpoint URL parses) one exec request whose    *)
(* command is "openclaw message webchat '/model <name>'", <name> the       *)
(* model the table maps the identifier to; when that request is answered   *)
(* 200 the handler writes, while the control socket is not destroyed, a    *)
(* toast "Switching to <name>" and then a stateUpdate that sets            *)
(* openclaw_current_model to exactly <name>; when it is answered with      *)
(* another status, fails or times out, or was never sent, no stateUpdate   *)
(* of openclaw_current_model is written.                                   *)
(***************************************************************************)
C11_ModelSwitchEndToEnd ==
    variant = "http" =>
      \A a \in ModelKeys :
        /\ (tp = "open" /\ buf = <<>>) =>
              LET r == Http_tpOnData(S, Line(ActionMsg(a))) IN
              /\ StateValues(r.tpSent, "openclaw_current_model") = {}
              /\ ValidUrl(gatewayUrl) =>
                    /\ Len(r.agentSent) = 1
                    /\ r.agentSent[1].body.tool = "exec"
                    /\ r.agentSent[1].body.args.command = ModelSwitchCommand(a)
                    /\ BagIn(ModelSwitchRequest(a), r.reqs)
        /\ BagIn(ModelSwitchRequest(a), reqs) =>
              /\ \A data \in ResponseBodies :
                    LET r == Http_onResponseEnd(S, ModelSwitchRequest(a), 200, data) IN
                    r.tpSent =
                        IF tp = "closed" THEN <<>>
                        ELSE <<Toast(<<"Switching to ", Http_modelMap[a]>>),
                               StateUpdate(<<State("openclaw_current_model",
                                                   JsStr(Http_modelMap[a]))>>)>>
              /\ \A status \in StatusCodes \ {200}, data \in ResponseBodies :
                    StateValues(Http_onResponseEnd(S, ModelSwitchRequest(a),
                                                   status, data).tpSent,
                                "openclaw_current_model") = {}
              /\ \A message \in ErrorMessages :
                    StateValues(Http_onRequestError(S, ModelSwitchRequest(a),
                                                    message).tpSent,
                                "openclaw_current_model") = {}
              /\ StateValues(Http_onRequestTimeout(S, ModelSwitchRequest(a)).tpSent,
                              "openclaw_current_model") = {}
        /\ (ev.type \in SettleEvents /\ ev.k = AwaitAction(a)
               /\ StateValues(tpSent, "openclaw_current_model") # {}) =>
              ev.type = "responseEnd" /\ ev.status = 200

\* The request of a model switch was answered 200: the toast and the model
\* state, both with the mapped name, went out.
C11_Witness ==
    /\ variant = "http" /\ ev.type = "responseEnd" /\ ev.status = 200
    /\ ev.k = AwaitAction("openclaw_switch_model_claude")
    /\ tpSent = <<Toast(<<"Switching to ", "anthropic/claude-sonnet-4-6">>),
                  StateUpdate(<<State("openclaw_current_model",
                                      JsStr("anthropic/claude-sonnet-4-6"))>>)>>

RestartToast == Toast(<<"Gateway restart initiated">>)
RestartingState == StateUpdate(<<State("openclaw_agent_status", JsStr("restarting"))>>)
HttpRestart == InFlight(Swallow, HttpTimeout)
LocalRestart == InFlight(AwaitAction("openclaw_reset_gateway"), SpawnTimeout)

TokenSettings(tok) == [type |-> "settings", values |-> FlatValues("auth_token" :> tok)]
Bearer(tok) == <<"Bearer ">> \o tok
CallerToken == <<"caller">>
NewTokens == {TokA, TokPadded}

\* Every request of sent carries the credential tok.
AllCarry(sent, tok) ==
    \A i \in DOMAIN sent :
        IF variant = "http" THEN sent[i].authorization = Bearer(tok)
        ELSE sent[i].params.token = tok

(***************************************************************************)
(* C13: in the two remote variants every request a handler sends carries   *)
(* the credential the plugin holds when the handler sends it, as           *)
(* params.token in the RPC envelope (replacing a token among the caller's  *)
(* parameters) and as the header "Bearer <token>" over HTTP; once a        *)
(* settings event has set a new credential, the next request carries the   *)
(* new one and not the old one.                                            *)
(***************************************************************************)
C13_CredentialInjected ==
    /\ variant = "http" =>
          /\ \A a \in ActionIds : AllCarry(Http_handleAction(S, a).agentSent, authToken)
          /\ AllCarry(Http_fetchStatus(S).agentSent, authToken)
          /\ (tp = "open" /\ buf = <<>> /\ ValidUrl(gatewayUrl)) =>
                \A tok \in NewTokens :
                    LET r == Http_tpOnData(S, Line(TokenSettings(tok)) \o Line(ResetAction))
                    IN /\ r.authToken = trim(tok, " ")
                       /\ Len(r.agentSent) = 1
                       /\ AllCarry(r.agentSent, trim(tok, " "))
                       /\ trim(tok, " ") # authToken => ~AllCarry(r.agentSent, authToken)
    /\ variant = "ws" =>
          /\ \A a \in ActionIds : AllCarry(Ws_handleAction(S, a).agentSent, authToken)
          /\ AllCarry(Ws_fetchStatus(S).agentSent, authToken)
          /\ GatewayOpen =>
                /\ LET r == Ws_sendGatewayRpc(S, "status.get", [token |-> CallerToken]) IN
                   Len(r.agentSent) = 1 /\ r.agentSent[1].params.token = authToken
                /\ tp = "open" =>
                      \A tok \in NewTokens :
                          LET r1 == Ws_tpOnMessage(S, Json(TokenSettings(tok)))
                              r == Ws_tpOnMessage(r1, Json(ResetAction))
                          IN /\ r1.authToken = tok
                             /\ Len(r.agentSent) = 1
                             /\ AllCarry(r.agentSent, tok)
                             /\ tok # authToken => ~AllCarry(r.agentSent, authToken)
    /\ (variant # "local" /\ \A i \in DOMAIN Msgs(ev) : Msgs(ev)[i].type # "settings") =>
          AllCarry(agentSent, authToken)

\* After a settings event set the credential, a request went out with it.
C13_Witness ==
    /\ variant = "ws" /\ authToken = TokA
    /\ Len(agentSent) = 1 /\ agentSent[1].params.token = TokA

PlusOne(t) == timers (+) SetToBag({t})

(***************************************************************************)
(* C14: for every known action identifier, the handleAction call whose     *)
(* branch succeeds adds exactly one refresh timer, in the handler run that *)
(* has written the action's notification (and state update) if the control *)
(* channel is writable, so that the refresh runs after them: with a delay  *)
(* of 2000 ms in the HTTP variant (at dispatch for reset_gateway, at the   *)
(* 200 answer for the awaited branches, which schedule nothing at          *)
(* dispatch), of 1000 ms in the WebSocket variant (at dispatch) and in the *)
(* local variant (at dispatch for a heartbeat file that was written, at    *)
(* exit code 0 for the commands, which schedule nothing at dispatch).      *)
(* When the timer fires it is gone and the status query is made.           *)
(***************************************************************************)
C14_PostActionRefresh ==
    /\ \A a \in KnownIds :
        /\ (variant = "http" /\ tp = "open" /\ buf = <<>>) =>
              LET r == Http_tpOnData(S, Line(ActionMsg(a))) IN
              IF a = "openclaw_reset_gateway"
              THEN r.timers = PlusOne(HttpRefresh)
                   /\ r.tpSent = <<RestartToast, RestartingState>>
              ELSE ValidUrl(gatewayUrl) => r.timers = timers /\ r.tpSent = <<>>
        /\ (variant = "http" /\ BagIn(InFlight(AwaitAction(a), HttpTimeout), reqs)) =>
              \A data \in ResponseBodies :
                  LET r == Http_onResponseEnd(S, InFlight(AwaitAction(a), HttpTimeout),
                                              200, data) IN
                  /\ r.timers = PlusOne(HttpRefresh)
                  /\ tp # "closed" => Toasts(r.tpSent) # {}
        /\ (variant = "ws" /\ tp = "open") =>
              LET r == Ws_tpOnMessage(S, Json(ActionMsg(a))) IN
              /\ r.timers = PlusOne(WsRefresh)
              /\ Toasts(r.tpSent) = {1} /\ Len(r.tpSent) = 1
        /\ (variant = "local" /\ tp = "open") =>
              LET r == Local_onMessage(S, Json(ActionMsg(a)), <<>>) IN
              IF a = "openclaw_trigger_heartbeat"
              THEN r.timers = PlusOne(LocalRefresh)
                   /\ r.tpSent = <<Toast(<<"Heartbeat triggered">>)>>
              ELSE r.timers = timers /\ r.tpSent = <<>>
        /\ (variant = "local"
               /\ BagIn(InFlight(AwaitAction(a), SpawnTimeout), reqs)) =>
              \A result \in {x \in ProcResults : x.code = 0} :
                  LET r == Local_onProcessDone(S, InFlight(AwaitAction(a), SpawnTimeout),
                                               result) IN
                  /\ r.timers = PlusOne(LocalRefresh)
                  /\ tp = "open" => Toasts(r.tpSent) = {1} /\ Len(r.tpSent) = 1
    /\ \A t \in BagToSet(timers) \cap {HttpRefresh, WsRefresh, LocalRefresh} :
          LET r == IF variant = "http" THEN Http_timerCallback(S, t)
                   ELSE IF variant = "ws" THEN Ws_timerCallback(S, t)
                   ELSE Local_timerCallback(S, t)
          IN /\ r.timers = timers (-) SetToBag({t})
             /\ variant = "http" /\ ValidUrl(gatewayUrl) => Len(r.agentSent) = 1
             /\ variant = "ws" /\ GatewayOpen =>
                   Len(r.agentSent) = 1 /\ r.agentSent[1].method = "status.get"
             /\ variant = "local" => r.agentSent = <<Spawned(S, <<"status">>)>>

\* A local command has ended with exit code 0: its toast went out and one
\* refresh is pending.
C14_Witness ==
    /\ variant = "local" /\ ev.type = "processDone" /\ ev.result.code = 0
    /\ ev.k = AwaitAction("openclaw_kill_subagents")
    /\ tpSent = <<Toast(<<"Sub-agents terminated">>)>>
    /\ timers = SetToBag({Timer("interval", StatusPeriod), LocalRefresh})

\* The control channel's close handler of the variant that runs.
TpOnClose(s) ==
    IF variant = "http" THEN Http_tpOnClose(s)
    ELSE IF variant = "ws" THEN Ws_tpOnClose(s)
    ELSE Local_onClose(s)

\* What the close of the control channel does and leaves behind.
ControlLinkLoss ==
    /\ tp = "closed" => ~running
    /\ loop = "done" => ~running
    /\ (~exited /\ tp \in {"connecting", "open"}) =>
          LET r == TpOnClose([S EXCEPT !.tp = "closed"]) IN
          /\ ~r.running
          /\ r.connects = 0
          /\ \A t \in BagToSet(r.timers) : t.cb # "interval" /\ BagIn(t, timers)
          /\ (variant = "ws" /\ ocWs # 0) =>
                /\ r.ocSocks[ocWs].state \in {"closing", "closed"}
                /\ LET q == Ws_ocOnClose([r EXCEPT !.ocSocks[ocWs].state = "closed"]) IN
                   q.timers = r.timers /\ q.connects = 0
    /\ (variant = "ws" /\ ev.type = "ocClose" /\ ~running) => connects = 0

(***************************************************************************)
(* C15: when the control channel closes, the close handler sets running to *)
(* false, and running, once false, stays false; the keep-alive loop, which *)
(* wakes every second, then ends; in the WebSocket variant the handler     *)
(* closes the gateway socket the plugin holds, and the close event of that *)
(* socket, finding running false, schedules no reconnect and starts no     *)
(* connection.                                                             *)
(***************************************************************************)
C15_TerminalShutdown ==
    /\ []ControlLinkLoss
    /\ [][~running => ~running']_vars
    /\ [][(ev'.type = "ocClose" /\ ~running') => timers' = timers]_vars
    /\ (tp = "closed") ~> (loop = "done")

\* The control channel has closed, the gateway socket closed after it, and
\* nothing is scheduled: the loop has ended.
C15_Witness ==
    /\ variant = "ws" /\ tp = "closed" /\ ~exited /\ loop = "done"
    /\ ev.type = "ocClose" /\ ev.sock = ocWs
    /\ timers = EmptyBag /\ ~running

GwIds == {1, 7}
GwModels == {JsStr("some/model"), [type |-> "number", v |-> "42"]}
NoModels == {Undefined, JsStr(""), [type |-> "null", v |-> "null"]}
ModelState(value) == StateUpdate(<<State("openclaw_current_model", value)>>)

\* What the handling of the gateway message data writes to the panel host
\* while the control channel is in the state tpState.
ModelRepublished(data, tpState) ==
    LET p == JSONparse(data) IN
    IF p.ok /\ p.msg.hasResult /\ p.msg.hasStatus /\ Truthy(p.msg.model) /\ tpState = "open"
    THEN <<ModelState(p.msg.model)>>
    ELSE <<>>

(***************************************************************************)
(* C16: in the WebSocket variant, in every reachable state (no request     *)
(* sent yet, or some), a gateway message with a result.status.model that   *)
(* is not empty or null makes the handler write, while the control channel *)
(* is OPEN, one stateUpdate of openclaw_current_model with that value,     *)
(* whatever the message's id; a message without result, without            *)
(* result.status, without a model (or with an empty or null one), and a    *)
(* message that fails to parse, write nothing; the handler changes nothing *)
(* else.                                                                   *)
(***************************************************************************)
C16_LooseCorrelation ==
    variant = "ws" =>
        /\ \A id \in GwIds, m \in GwModels :
              LET r == Ws_ocOnMessage(S, Json(GwMsg(id, TRUE, TRUE, m))) IN
              r = [S EXCEPT !.tpSent = IF tp = "open" THEN <<ModelState(m)>> ELSE <<>>]
        /\ \A id \in GwIds, m \in NoModels :
              Ws_ocOnMessage(S, Json(GwMsg(id, TRUE, TRUE, m))) = S
        /\ \A id \in GwIds, m \in GwModels :
              /\ Ws_ocOnMessage(S, Json(GwMsg(id, TRUE, FALSE, m))) = S
              /\ Ws_ocOnMessage(S, Json(GwMsg(id, FALSE, FALSE, m))) = S
        /\ Ws_ocOnMessage(S, Garbage) = S
        /\ ev.type = "ocMessage" => tpSent = ModelRepublished(ev.data, tp)

\* Before any request was sent, a message with another id and a model
\* arrived and the model was republished.
C16_Witness ==
    /\ variant = "ws" /\ reqId = 1 /\ ev.type = "ocMessage"
    /\ ev.data = Json(GwMsg(7, TRUE, TRUE, JsStr("some/model")))
    /\ tpSent = <<ModelState(JsStr("some/model"))>>

StateIds == {"openclaw_current_model", "openclaw_agent_status", "openclaw_uptime"}
StatusTimer == Timer("interval", StatusPeriod)
AgentStatus(v) == StateUpdate(<<State("openclaw_agent_status", JsStr(v))>>)
HttpPoll == InFlight(AwaitStatus, HttpTimeout)
LocalPoll1 == InFlight(AwaitStatus1, SpawnTimeout)
LocalPoll2 == InFlight(AwaitStatus2, SpawnTimeout)

\* The step completed a status poll while the control channel is connected.
PollCompleted ==
    /\ tp = "open"
    /\ \/ variant = "http" /\ ev.type \in SettleEvents /\ ev.k = AwaitStatus
       \/ variant = "ws" /\ ev.type = "timer" /\ ev.cb \in {"interval", "fetchStatus"}
       \/ variant = "local" /\ ev.type = "processDone"
             /\ ev.k.kind \in {"status", "gatewayStatus"} /\ agentSent = <<>>

\* While the control channel is connected exactly one repeating timer
\* exists, and none otherwise.
OneStatusTimer ==
    /\ CopiesIn(StatusTimer, timers) = IF tp = "open" THEN 1 ELSE 0
    /\ \A t \in BagToSet(timers) : t.cb = "interval" => t = StatusTimer
    /\ tp = "open" => statusInterval

Identification ==
    IF variant = "http" THEN [type |-> "pair", id |-> pluginId]
    ELSE [type |-> "info", id |-> pluginId, version |-> "1.0.0"]

Idents(sent) == {i \in DOMAIN sent : sent[i].type \in {"pair", "info"}}

\* The control channel's connect handler of the variant that runs.
TpOnOpen(s) ==
    IF variant = "http" THEN Http_tpOnConnect(s)
    ELSE IF variant = "ws" THEN Ws_tpOnOpen(s)
    ELSE Local_onOpen(s)

\* Nothing is written before the connection; the connect handler writes
\* the identification, first and once.
IdentifiedOnConnect ==
    /\ tp = "connecting" =>
          /\ tpSent = <<>>
          /\ ~exited => TpOnOpen([S EXCEPT !.tp = "open"]).tpSent = <<Identification>>
    /\ ev.type = "tpOpen" =>
          /\ tpSent # <<>> /\ tpSent[1] = Identification
          /\ Idents(tpSent) = {1}
    /\ ev.type # "tpOpen" => Idents(tpSent) = {}

(***************************************************************************)
(* C18: the bridge makes one control-channel connection; while it is being *)
(* made nothing is written to it; the connect handler writes the           *)
(* identification message (pair over TCP, info over WebSocket) with the    *)
(* plugin identifier as the first message of the connection; no other      *)
(* step writes an identification, and the connect handler runs once, the   *)
(* connection never going back to connecting: every stateUpdate and        *)
(* showNotification of the connection comes after the identification.      *)
(***************************************************************************)
C18_IdentificationFirst ==
    /\ []IdentifiedOnConnect
    /\ [][Idents(tpSent') # {} => (tp = "connecting" /\ tp' = "open")]_vars
    /\ [][tp # "connecting" => tp' # "connecting"]_vars
    /\ [][tpSent' # <<>> =>
            /\ tp' # "connecting"
            /\ tp = "connecting" => Idents(tpSent') = {1}
         ]_vars

\* The TCP connection was made and the pair message is the one written.
C18_Witness ==
    /\ variant = "http" /\ ev.type = "tpOpen" /\ tp = "open"
    /\ tpSent = <<[type |-> "pair", id |-> "openclaw.deckard"]>>

SettingKeys ==
    IF variant = "local" THEN {"openclaw_path", "openclaw_workspace"}
    ELSE {"gateway_url", "auth_token"}

\* The field that holds the setting named k.
Setting(k) ==
    CASE k = "gateway_url" -> gatewayUrl
      [] k = "auth_token" -> authToken
      [] k = "openclaw_path" -> openclawPath
      [] k = "openclaw_workspace" -> workspaceDir

\* The value a settings message carries for k, empty when it has none.
Carried(m, k) == Prop(parseSettings(m.values), k)

NoSettingsIn(e) == \A i \in DOMAIN Msgs(e) : Msgs(e)[i].type # "settings"
OneSettingsIn(e) == Len(Msgs(e)) = 1 /\ Msgs(e)[1].type = "settings"

(***************************************************************************)
(* C19, as the specification states it: a step that handles no settings    *)
(* event leaves the settings unchanged, and a settings event that lacks a  *)
(* key, or carries for it an empty value or, in the HTTP variant, a value  *)
(* of whitespace only, leaves that setting at its previous value.          *)
(***************************************************************************)
C19_BlankValueKeepsSetting ==
    [][/\ NoSettingsIn(ev') => Settings' = Settings
       /\ OneSettingsIn(ev') =>
             \A k \in SettingKeys :
                 LET v == Carried(Msgs(ev')[1], k) IN
                 (v = <<>> \/ (variant = "http" /\ trim(v, " ") = <<>>)) =>
                     Setting(k)' = Setting(k)
      ]_vars

(***************************************************************************)
(* C19, amended: a step that handles no settings event (an action, a       *)
(* closePlugin, an agent response, a timer, a socket event, the interrupt) *)
(* leaves the settings unchanged, and a settings event that lacks a key,   *)
(* or carries an empty value for it, leaves that setting at its previous   *)
(* value; in the HTTP variant an auth_token of whitespace only does so     *)
(* too, whereas a gateway_url of whitespace only is stored.                *)
(***************************************************************************)
C19_SettingsFrame ==
    [][/\ NoSettingsIn(ev') => Settings' = Settings
       /\ OneSettingsIn(ev') =>
             /\ \A k \in SettingKeys :
                   LET v == Carried(Msgs(ev')[1], k) IN
                   (v = <<>> \/ (variant = "http" /\ k = "auth_token"
                                   /\ trim(v, " ") = <<>>)) =>
                       Setting(k)' = Setting(k)
             /\ (variant = "http" /\ Carried(Msgs(ev')[1], "gateway_url") = UrlBlank) =>
                   gatewayUrl' = UrlBlank
      ]_vars

\* The HTTP variant has handled a settings event with an empty gateway_url
\* and a blank auth_token, and holds its defaults.
C19_Witness ==
    /\ variant = "http" /\ OneSettingsIn(ev)
    /\ Carried(Msgs(ev)[1], "gateway_url") = <<>>
    /\ Carried(Msgs(ev)[1], "auth_token") = TokBlank
    /\ gatewayUrl = Http_DefaultUrl /\ authToken = DefaultToken

(***************************************************************************)
(* C20, as the specification states it: in every stateUpdate message       *)
(* written to the panel host, the value of every entry is a string,        *)
(* whatever the type of the value the agent sent.                          *)
(***************************************************************************)
C20_StateValuesAreStrings ==
    \A i \in DOMAIN tpSent :
        tpSent[i].type = "stateUpdate" =>
            \A j \in DOMAIN tpSent[i].states :
                tpSent[i].states[j].value.type = "string"

(***************************************************************************)
(* C21: in the HTTP variant, when the agent's response ends, the promise   *)
(* of invokeTool resolves, and is never rejected, with the response's HTTP *)
(* status; with the parsed value when the body is a JSON text, and with    *)
(* the body's text as it came when it is not (a text that is no JSON, the  *)
(* empty body, a JSON text cut short).  The request is then no longer in   *)
(* flight.                                                                 *)
(***************************************************************************)
JsonValues == {[type |-> "result"], [type |-> "error", code |-> 7]}
NonJsonTexts == {Garbage, <<>>, <<Sym("{"), Body([type |-> "result"])>>}

C21_NonJsonPassThrough ==
    variant = "http" =>
        \A r \in BagToSet(reqs), status \in StatusCodes :
            /\ \A data \in NonJsonTexts :
                  LET res == Http_onResponseEnd(S, r, status, data) IN
                  /\ Len(res.settled) = 1
                  /\ res.settled[1].k = r.k
                  /\ res.settled[1].outcome.ok
                  /\ res.settled[1].outcome.status = status
                  /\ ~res.settled[1].outcome.body.json
                  /\ res.settled[1].outcome.body.text = data
                  /\ res.reqs = reqs (-) SetToBag({r})
            /\ \A v \in JsonValues :
                  LET res == Http_onResponseEnd(S, r, status, Json(v)) IN
                  /\ Len(res.settled) = 1
                  /\ res.settled[1].k = r.k
                  /\ res.settled[1].outcome.ok
                  /\ res.settled[1].outcome.status = status
                  /\ res.settled[1].outcome.body.json
                  /\ res.settled[1].outcome.body.value = v
                  /\ res.reqs = reqs (-) SetToBag({r})

\* A response whose body is no JSON has ended with status 500 and the call
\* resolved with that text.
C21_Witness ==
    /\ variant = "http"
    /\ ev.type = "responseEnd" /\ ev.data = Garbage /\ ev.status = 500
    /\ Len(settled) = 1
    /\ settled[1].outcome.ok
    /\ settled[1].outcome.status = 500
    /\ settled[1].outcome.body.text = Garbage

(***************************************************************************)
(* C22: the HTTP variant neither serializes its requests nor orders their  *)
(* results.  Whatever requests are in flight, an action or a status poll   *)
(* sends its own request at once and leaves the others in flight; and      *)
(* when a response ends, the handler awaiting it writes its own value to   *)
(* the control channel in that same step, as one update of one state,      *)
(* whether or not its request was the one issued last: so the value a      *)
(* state is left with is that of the handler that completed last.          *)
(* Writing is subject to the control channel being writable.               *)
(***************************************************************************)
AwaitedIds == KnownIds \ {"openclaw_reset_gateway"}
ModelUpdate(a) == StateUpdate(<<State("openclaw_current_model", JsStr(Http_modelMap[a]))>>)

C22_NoSerializationLastWriteWins ==
    variant = "http" =>
        /\ (tp = "open" /\ buf = <<>> /\ ValidUrl(gatewayUrl)) =>
              \A a \in AwaitedIds :
                  LET res == Http_tpOnData(S, Line(ActionMsg(a))) IN
                  /\ Len(res.agentSent) = 1
                  /\ res.reqs = reqs (+) SetToBag({InFlight(AwaitAction(a), HttpTimeout)})
                  /\ res.lastAction = AwaitAction(a)
        /\ ValidUrl(gatewayUrl) =>
              \A t \in BagToSet(timers) :
                  LET res == Http_timerCallback(S, t) IN
                  /\ Len(res.agentSent) = 1
                  /\ res.reqs = reqs (+) SetToBag({InFlight(AwaitStatus, HttpTimeout)})
        /\ \A r \in BagToSet(reqs), data \in ResponseBodies :
              LET res == Http_onResponseEnd(S, r, 200, data) IN
              /\ res.reqs = reqs (-) SetToBag({r})
              /\ res.agentSent = <<>>
              /\ (r.k.kind = "action" /\ r.k.actionId \in ModelKeys) =>
                    res.tpSent =
                      IF tp = "closed" THEN <<>>
                      ELSE << Toast(<<"Switching to ", Http_modelMap[r.k.actionId]>>),
                              ModelUpdate(r.k.actionId) >>
              /\ r.k = AwaitStatus =>
                    res.tpSent = IF tp = "closed" THEN <<>> ELSE <<AgentStatus("online")>>
        /\ (ev.type = "responseEnd" /\ ev.status = 200 /\ tp # "closed"
              /\ ev.k.kind = "action" /\ ev.k.actionId \in ModelKeys) =>
              StateValues(tpSent, "openclaw_current_model")
                  = {JsStr(Http_modelMap[ev.k.actionId])}

\* Two model switches were in flight together; the one issued last has
\* already been answered, and the answer to the one issued first now
\* publishes the first one's model.
C22_Witness ==
    /\ variant = "http"
    /\ ev.type = "responseEnd" /\ ev.status = 200
    /\ ev.k = AwaitAction("openclaw_switch_model_deepseek")
    /\ ev.last = AwaitAction("openclaw_switch_model_ollama")
    /\ StateValues(tpSent, "openclaw_current_model")
          = {JsStr("openrouter/deepseek/deepseek-v3.2")}

(***************************************************************************)
(* C23: in the WebSocket variant at most one gateway socket is connecting  *)
(* or open at a time; it is the one this.ocWs refers to, and it was made   *)
(* to the gateway URL configured last.                                     *)
(***************************************************************************)
LiveGatewaySockets == {i \in DOMAIN ocSocks : ocSocks[i].state \in {"connecting", "open"}}

C23_AtMostOneGatewayConnection ==
    variant = "ws" =>
        /\ Cardinality(LiveGatewaySockets) <= 1
        /\ LiveGatewaySockets \subseteq {ocWs}
        /\ \A i \in LiveGatewaySockets : ocSocks[i].url = gatewayUrl

(***************************************************************************)
(* C24, as the specification states it: in the HTTP variant every action's *)
(* request that is answered with a status other than 200 produces a        *)
(* failure notification naming the status, and every such request that is  *)
(* rejected produces one notification starting with 'Error: '.             *)
(***************************************************************************)
ActionRequests == {r \in BagToSet(reqs) : r.k.kind \in {"action", "catch"}}

C24_EveryFailureNotified ==
    (variant = "http" /\ tp = "open") =>
        \A r \in ActionRequests :
            /\ \A data \in ResponseBodies :
                  Cardinality(Toasts(Http_onResponseEnd(S, r, 500, data).tpSent)) = 1
            /\ \A m \in ErrorMessages :
                  Cardinality(Toasts(Http_onRequestError(S, r, m).tpSent)) = 1

(***************************************************************************)
(* C24, amended.  In the HTTP variant, for the actions that wait for their *)
(* request (the model switches, heartbeat, kill sub-agents, toggle         *)
(* thinking): an answer with a status other than 200 writes exactly one    *)
(* notification, '<what> failed (<status>)'; a rejected request (network   *)
(* error, timeout, or an endpoint URL that does not parse) writes exactly  *)
(* one notification, 'Error: ' and the first 50 characters of the error's  *)
(* message; neither writes a state update nor sends a request, and both    *)
(* schedule the status refresh.  For reset_gateway, which does not wait,   *)
(* no outcome of the request writes or schedules anything.  Notifications  *)
(* are subject to the control channel being writable.                      *)
(***************************************************************************)
FailedText(a) ==
    IF a = "openclaw_trigger_heartbeat" THEN "Heartbeat failed ("
    ELSE IF a = "openclaw_kill_subagents" THEN "Kill failed ("
    ELSE IF a = "openclaw_toggle_thinking" THEN "Toggle failed ("
    ELSE "Switch failed ("

First50(m) == IF m = ErrLong THEN [i \in 1..50 |-> "e"] ELSE m

IfWritable(msgs) == IF tp = "closed" THEN <<>> ELSE msgs

Contained(res, msgs) ==
    /\ res.tpSent = IfWritable(msgs)
    /\ res.agentSent = <<>>
    /\ res.timers = timers (+) SetToBag({Timer("fetchStatus", HttpRefreshDelay)})

Unnoticed(res) == res.tpSent = <<>> /\ res.agentSent = <<>> /\ res.timers = timers

C24_ActionFailuresContained ==
    variant = "http" =>
        /\ \A r \in BagToSet(reqs) :
              /\ r.k.kind = "action" =>
                    /\ \A data \in ResponseBodies :
                          Contained(Http_onResponseEnd(S, r, 500, data),
                                    <<Toast(<<FailedText(r.k.actionId), "500", ")">>)>>)
                    /\ \A m \in ErrorMessages :
                          Contained(Http_onRequestError(S, r, m),
                                    <<Toast(<<"Error: ">> \o First50(m))>>)
                    /\ Contained(Http_onRequestTimeout(S, r),
                                 <<Toast(<<"Error: ">> \o TimeoutMessage)>>)
              /\ r.k = Swallow =>
                    /\ \A status \in StatusCodes, data \in ResponseBodies :
                          Unnoticed(Http_onResponseEnd(S, r, status, data))
                    /\ \A m \in ErrorMessages : Unnoticed(Http_onRequestError(S, r, m))
                    /\ Unnoticed(Http_onRequestTimeout(S, r))
        /\ (tp = "open" /\ buf = <<>> /\ ~ValidUrl(gatewayUrl)) =>
              \A a \in AwaitedIds \cup InheritedProps :
                  LET res == Http_tpOnData(S, Line(ActionMsg(a))) IN
                  /\ Contained(res, <<Toast(<<"Error: ">> \o InvalidUrlMessage)>>)
                  /\ res.reqs = reqs

\* A request of an action failed with a message of 51 characters and the
\* notification carries the first 50.
C24_Witness ==
    /\ variant = "http"
    /\ ev.type = "requestError" /\ ev.k.kind = "action" /\ ev.message = ErrLong
    /\ tpSent = <<Toast(<<"Error: ">> \o [i \in 1..50 |-> "e"])>>

(***************************************************************************)
(* C25: in the HTTP variant a status poll writes nothing when it sends its *)
(* request and, when the request is settled, exactly one update of         *)
(* openclaw_agent_status alone: 'online' when the answer's status is 200,  *)
(* 'error' when it is any other status, 'offline' when the request is      *)
(* rejected (network error, timeout, or an endpoint URL that does not      *)
(* parse, which rejects at once); the update is subject to the control     *)
(* channel being writable.  In every variant, every value written for      *)
(* openclaw_agent_status is one of online, offline, error, restarting.     *)
(***************************************************************************)
AgentStatuses == {JsStr("online"), JsStr("offline"), JsStr("error"), JsStr("restarting")}

C25_StatusPollMapping ==
    /\ StateValues(tpSent, "openclaw_agent_status") \subseteq AgentStatuses
    /\ variant = "http" =>
          /\ \A t \in BagToSet(timers) :
                Http_timerCallback(S, t).tpSent =
                    IF ValidUrl(gatewayUrl) THEN <<>>
                    ELSE IfWritable(<<AgentStatus("offline")>>)
          /\ \A r \in BagToSet(reqs) :
                r.k = AwaitStatus =>
                  /\ \A data \in ResponseBodies :
                        /\ Http_onResponseEnd(S, r, 200, data).tpSent
                              = IfWritable(<<AgentStatus("online")>>)
                        /\ Http_onResponseEnd(S, r, 500, data).tpSent
                              = IfWritable(<<AgentStatus("error")>>)
                  /\ \A m \in ErrorMessages :
                        Http_onRequestError(S, r, m).tpSent
                          = IfWritable(<<AgentStatus("offline")>>)
                  /\ Http_onRequestTimeout(S, r).tpSent
                        = IfWritable(<<AgentStatus("offline")>>)

\* A status poll was answered with status 500 and 'error' was published.
C25_Witness ==
    /\ variant = "http"
    /\ ev.type = "responseEnd" /\ ev.k = AwaitStatus /\ ev.status = 500
    /\ tpSent = <<AgentStatus("error")>>

(***************************************************************************)
(* C26: in every variant, for every action identifier the panel host can   *)
(* send, names of inherited object properties included, the dispatch sends *)
(* a '/model' command to the agent only if the identifier is one of the    *)
(* five model-switch keys, and the model named is the one the table maps   *)
(* the identifier to.                                                      *)
(***************************************************************************)
HttpModelsSent(sent) ==
    {sent[i].body.args.command[2] :
        i \in {j \in DOMAIN sent :
                  /\ sent[j].body.tool = "exec"
                  /\ sent[j].body.args.command[1] = "openclaw message webchat '/model "}}

WsModelsSent(sent) ==
    {sent[i].params.message[2] :
        i \in {j \in DOMAIN sent :
                  /\ sent[j].method = "message.send"
                  /\ sent[j].params.message[1] = "/model "}}

LocalModelsSent(sent) ==
    {sent[i].args[4] :
        i \in {j \in DOMAIN sent :
                  /\ Len(sent[j].args) = 4
                  /\ sent[j].args[3] = "/model "}}

TableEntry(map, a) == IF a \in ModelKeys THEN {map[a]} ELSE {}

C26_ModelNamesFromTable ==
    tp = "open" =>
        \A a \in ActionIds :
            /\ (variant = "http" /\ buf = <<>>) =>
                  HttpModelsSent(Http_tpOnData(S, Line(ActionMsg(a))).agentSent)
                      \subseteq TableEntry(Http_modelMap, a)
            /\ variant = "ws" =>
                  WsModelsSent(Ws_tpOnMessage(S, Json(ActionMsg(a))).agentSent)
                      \subseteq TableEntry(Ws_modelMap, a)
            /\ variant = "local" =>
                  LocalModelsSent(Local_onMessage(S, Json(ActionMsg(a)), <<>>).agentSent)
                      \subseteq TableEntry(Local_modelMap, a)

(***************************************************************************)
(* C27: in the TCP variant the data handler's effect does not depend on    *)
(* how the inbound bytes are cut into chunks: delivering a byte stream in  *)
(* two chunks, cut at any place, dispatches the same messages in the same  *)
(* order, with the same effects, and leaves the same partial line in the   *)
(* buffer, as delivering it in one chunk.                                  *)
(***************************************************************************)
ByteStreams ==
    { Line(ResetAction) \o Line(ClosePlugin),
      <<SP>> \o Json(ResetAction) \o <<SP, NL, SP, NL>> \o <<Sym("{")>>,
      Garbage \o <<NL>> \o Line(ResetAction),
      <<Sym("{"), BytesTo(AccentSettings), BytesFrom(AccentSettings), Sym("}"), NL>>
          \o Line(ResetAction) }

InTwoChunks(s, stream, cut) ==
    Http_tpOnData(Http_tpOnData(s, SubSeq(stream, 1, cut)),
                  SubSeq(stream, cut + 1, Len(stream)))

C27_FramingChunkIndependent ==
    (variant = "http" /\ tp = "open") =>
        \A stream \in ByteStreams :
            \A cut \in 0..Len(stream) :
                InTwoChunks(S, stream, cut) = Http_tpOnData(S, stream)

====
